---- MODULE Spec2Model ----
(***************************************************************************)
(* tailproxy: the preload shim of the child (bind/listen/close/connect,    *)
(* FD table, control channel client), the SOCKS5 client and server halves, *)
(* and the supervisor's export manager (port policy, exporter map with     *)
(* reference counts, overlay listeners).                                    *)
(*                                                                         *)
(* Strings are sequences of one-character strings, so that formatting and  *)
(* parsing (Sprintf, Atoi, Split, TrimSpace, IP.String) are computed.      *)
(***************************************************************************)
EXTENDS Integers, Sequences, FiniteSets, TLC

VARIABLES
    \* ---- supervisor configuration (Config) ----
    config,          \* [ExportAllowPorts, ExportDenyPorts : string, ExportMax : Int]
    \* ---- export manager (ExporterManager) ----
    exporters,       \* em.exporters: the entries [port, refcount, lid] of the map
    listeners,       \* every overlay listener em.server.Listen returned, in order:
                     \*   [port, open, cancelled]; lid = its index
    emPc,            \* Stop: "run", "cancelled" (em.cancel() done), "stopped"
    emLog,           \* the branch the last handleListen/handleClose took
    nListen,         \* per port: LISTEN lines handled so far
    nClose,          \* per port: CLOSE lines handled so far
    lateListen,      \* per port: a LISTEN was handled after a CLOSE for the port
    \* ---- preload shim in the child, and the kernel's view of its sockets ----
    export_enabled,  \* static int export_enabled (from TAILPROXY_EXPORT_LISTENERS)
    control_socket,  \* static char *control_socket: "" (NULL) or the socket path
    control_fd,      \* static int control_fd: -1, or the connected control socket
    fd_table,        \* fd_table[fd] = [is_tcp, is_listener, family, port]
    sock,            \* kernel: per fd, the socket behind it (or closed)
    supListening,    \* the supervisor is listening on the control socket path
    ctrlInbox,       \* the lines the shim has delivered on its control connection
    nCalls,          \* application calls made so far
    lastCall,        \* the last shim call: what it passed on, returned and sent
    ctlOpen,         \* the lazy open of control_fd: [failed, retried]: an attempt
                     \*   has failed; an attempt was made after a failed one
    sent,            \* per fd, since socket(): the LISTEN and CLOSE lines the
                     \*   shim handed to send_control_message: [listen, close]
    \* ---- port policy evaluation (isPortAllowed as a pure function) ----
    polAllow,        \* the allow spec as a list of tokens, before rendering
    polDeny,         \* the deny spec as a list of tokens, before rendering
    polPort,         \* the candidate port
    polResult,       \* "unset", or what isPortAllowed returned: "accept" / "reject"
    \* ---- one SOCKS5 session: connect() in the child, handleConnection ----
    cSock,           \* kernel: the socket the application connects
    cDest,           \* the sockaddr the application passed to connect()
    cPc,             \* connect(): "idle", "direct", "proxy_failed", "greeting_sent",
                     \*   "request_sent", "connected", "failed"; "foreign" for a
                     \*   connection another program made to the proxy port
    cCall,           \* what the connect() call did to the socket and to errno
    c2s,             \* bytes sent by the child, not yet read by the proxy
    s2c,             \* bytes written by the proxy, not yet read by the child
    sPc,             \* handleConnection: "none", "greeting", "request", "splice",
                     \*   "closed"
    dials,           \* the targets handed to p.server.Dial in this session
    sLog,            \* handleConnection's reads, writes, dials and close, in order
    splice,          \* the relay: which ends have closed, which copies returned
    nSess,           \* connect() calls made so far
    \* ---- the supervisor process: main, StartWithReady, the signal goroutine ----
    mainIn,          \* [proxyOnly, exitNode]: no command given; an exit node is set
    mPc,             \* main: "new", "select", "wait_sig", "child", "after_child",
                     \*   "wait_proxy", "exit", "fatal"
    pPc,             \* StartWithReady: "idle", "init", "auth", "exitnode", "listen",
                     \*   "ready", "accept"; "failed" (a startup error returned),
                     \*   "returned" (ctx.Err() returned), "exited" with the process
    sigPc,           \* the signal goroutine: "waiting", "done"
    closerPc,        \* the goroutine that closes the listener: "none", "waiting",
                     \*   "done"
    sigChan,         \* signals buffered in sigChan (capacity 1)
    proxyChan,       \* proxyChan: "empty", or the error sent: "startup", "canceled"
    ctxDone,         \* the root context is cancelled
    listener,        \* the SOCKS5 listener: "none", "open", "closed"
    readyClosed,     \* the number of close(ready) calls
    mesh,            \* [up, exitApplied]: waitForAuth returned nil; EditPrefs done
    child,           \* the command: "none", "running", "exited"
    nSignals,        \* interrupt signals sent to the process
    nAccepted,       \* connections the accept loop handed to handleConnection
    \* ---- the control socket of the export manager ----
    ctlPc,           \* the acceptor goroutine: "check", "accept", "returned"
    ctlListener,     \* the control listener: "open", "closed"
    ctlConn,         \* the control connection: "none", "open", "eof" (closed by
                     \*   the peer), "closed" (the handler returned)
    ctlIn,           \* lines written on the connection and not yet scanned
    nScanned,        \* lines scanned from control connections
    nConns,          \* control connections accepted
    \* ---- the configuration main builds ----
    cfgIn,           \* [flags, file]: the flags given and the config file's keys
    cfgOut,          \* the Config main hands to NewProxyServer
    cfgPc,           \* "start", "done"
    \* ---- single routines, each under a specification of its own ----
    owner,           \* per child listener: [st, port, counted]
    dom,             \* a domain CONNECT request: [pc, len, port, res]
    ini,             \* init_preload: the state it sets and the calls made of it
    thr,             \* threads inside bind, listen and close, and the FD-table mutex
    loop,            \* one exporter entry, its accept loop and its forwarders
    fwd              \* one forwardConnection call

emVars == <<exporters, listeners, emPc, emLog, nListen, nClose, lateListen>>

shimVars == <<export_enabled, control_socket, control_fd, fd_table, sock,
              supListening, ctrlInbox, nCalls, lastCall, ctlOpen, sent>>

polVars == <<polAllow, polDeny, polPort, polResult>>

socksVars == <<cSock, cDest, cPc, cCall, c2s, s2c, sPc, dials, sLog, splice,
               nSess>>

mainVars == <<mainIn, mPc, pPc, sigPc, closerPc, sigChan, proxyChan, ctxDone,
              listener, readyClosed, mesh, child, nSignals, nAccepted>>

ctlVars == <<ctlPc, ctlListener, ctlConn, ctlIn, nScanned, nConns>>

cfgVars == <<cfgIn, cfgOut, cfgPc>>

unitVars == <<owner, dom, ini, thr, loop, fwd>>

extVars == <<mainVars, ctlVars, cfgVars, unitVars>>

vars == <<extVars, config, emVars, shimVars, polVars, socksVars>>

-----------------------------------------------------------------------------
(* Go strings / strconv, over sequences of characters                      *)

DigitChars == <<"0", "1", "2", "3", "4", "5", "6", "7", "8", "9">>

IsDigit(c) == \E i \in 1..10 : DigitChars[i] = c

DigitVal(c) == (CHOOSE i \in 1..10 : DigitChars[i] = c) - 1

IsSpace(c) == c \in {" ", "\t", "\n", "\r"}

RECURSIVE TrimLeft(_)
TrimLeft(s) == IF s # <<>> /\ IsSpace(Head(s)) THEN TrimLeft(Tail(s)) ELSE s

RECURSIVE TrimRight(_)
TrimRight(s) ==
    IF s # <<>> /\ IsSpace(s[Len(s)]) THEN TrimRight(SubSeq(s, 1, Len(s) - 1)) ELSE s

\* strings.TrimSpace
TrimSpace(s) == TrimRight(TrimLeft(s))

\* strings.Contains(s, sep) for a one-character sep
Contains(s, c) == \E i \in 1..Len(s) : s[i] = c

\* strings.Split(s, sep) for a one-character sep: always at least one part
RECURSIVE SplitFrom(_, _, _)
SplitFrom(s, c, cur) ==
    IF s = <<>> THEN <<cur>>
    ELSE IF Head(s) = c THEN <<cur>> \o SplitFrom(Tail(s), c, <<>>)
    ELSE SplitFrom(Tail(s), c, Append(cur, Head(s)))

Split(s, c) == SplitFrom(s, c, <<>>)

RECURSIVE DigitsValue(_, _)
DigitsValue(s, acc) ==
    IF s = <<>> THEN acc ELSE DigitsValue(Tail(s), acc * 10 + DigitVal(Head(s)))

AllDigits(s) == s # <<>> /\ \A i \in 1..Len(s) : IsDigit(s[i])

\* strconv.Atoi: [ok, val]; an optional sign, then one or more decimal digits
Atoi(s) ==
    LET signed == s # <<>> /\ Head(s) \in {"+", "-"}
        body   == IF signed THEN Tail(s) ELSE s
    IN  IF AllDigits(body)
        THEN [ok  |-> TRUE,
              val |-> IF signed /\ Head(s) = "-" THEN 0 - DigitsValue(body, 0)
                      ELSE DigitsValue(body, 0)]
        ELSE [ok |-> FALSE, val |-> 0]

\* fmt.Sprintf("%d", n) for n >= 0
RECURSIVE Itoa(_)
Itoa(n) == IF n < 10 THEN <<DigitChars[n + 1]>>
           ELSE Append(Itoa(n \div 10), DigitChars[(n % 10) + 1])

-----------------------------------------------------------------------------
(* Port policy: exporter.go isPortAllowed / matchesPortSpec                *)

\* one token of the loop body of matchesPortSpec (after the TrimSpace)
PartMatches(port, rawPart) ==
    LET part == TrimSpace(rawPart) IN
    IF Contains(part, "-")
    THEN LET rangeParts == Split(part, "-") IN
         IF Len(rangeParts) # 2 THEN FALSE
         ELSE LET start == Atoi(TrimSpace(rangeParts[1]))
                  end   == Atoi(TrimSpace(rangeParts[2]))
              IN  start.ok /\ end.ok /\ port >= start.val /\ port <= end.val
    ELSE LET p == Atoi(part) IN p.ok /\ p.val = port

matchesPortSpec(port, spec) ==
    LET parts == Split(spec, ",") IN
    \E i \in 1..Len(parts) : PartMatches(port, parts[i])

\* isPortAllowed with the allow list consulted before the deny list
isPortAllowedAllowFirst(port) ==
    IF config.ExportAllowPorts # <<>>
    THEN matchesPortSpec(port, config.ExportAllowPorts)
    ELSE IF config.ExportDenyPorts # <<>>
              /\ matchesPortSpec(port, config.ExportDenyPorts)
         THEN FALSE
         ELSE TRUE

isPortAllowed(port) ==
    IF config.ExportDenyPorts # <<>> /\ matchesPortSpec(port, config.ExportDenyPorts)
    THEN FALSE
    ELSE IF config.ExportAllowPorts # <<>>
         THEN matchesPortSpec(port, config.ExportAllowPorts)
         ELSE TRUE

\* a port-matcher token as the operator writes it: a single port, a range
\* low-high, or a word that is no number
SingleTok(n) == [kind |-> "single", lo |-> n, hi |-> n]

RangeTok(a, b) == [kind |-> "range", lo |-> a, hi |-> b]

JunkTok == [kind |-> "junk", lo |-> 0, hi |-> 0]

RenderTok(t, spaced) ==
    LET sp == IF spaced THEN <<" ">> ELSE <<>> IN
    CASE t.kind = "single" -> sp \o Itoa(t.lo)
      [] t.kind = "range"  -> sp \o Itoa(t.lo) \o sp \o <<"-">> \o sp \o Itoa(t.hi) \o sp
      [] OTHER             -> <<"x">>

RECURSIVE RenderSpec(_, _)
RenderSpec(toks, spaced) ==
    IF toks = <<>> THEN <<>>
    ELSE IF Len(toks) = 1 THEN RenderTok(toks[1], spaced)
    ELSE RenderTok(toks[1], spaced) \o <<",">> \o RenderSpec(Tail(toks), spaced)

\* the ports the child and the policy specs of the model use
Ports == {80, 81, 82}

PolicyTokens ==
    {SingleTok(80), RangeTok(80, 81), RangeTok(81, 82), RangeTok(82, 80), JunkTok}

MaxSpecTokens == 2

RECURSIVE SeqsUpTo(_, _)
SeqsUpTo(S, n) ==
    IF n = 0 THEN {<<>>}
    ELSE LET shorter == SeqsUpTo(S, n - 1)
         IN  shorter \cup {Append(q, x) : q \in shorter, x \in S}

PolicySpecs == SeqsUpTo(PolicyTokens, MaxSpecTokens)

PolicyPorts == 79..83

-----------------------------------------------------------------------------
(* Export manager: exporter.go                                             *)
(*                                                                         *)
(* handleListen and handleClose run wholly under em.mu (Lock, deferred     *)
(* Unlock), so each handled line is one step whatever number of control    *)
(* connections deliver the lines; Stop cancels em.ctx before it takes the  *)
(* lock, so it is two steps.                                               *)

MaxMsgs == 4          \* control lines handled over a run

MaxListeners == 3     \* overlay listeners opened over a run

MaxExportMax == 2     \* the largest export-max a run is configured with

\* "LISTEN <family> <port>\n" / "CLOSE <family> <port>\n"; a word is one symbol
CtlLine(cmd, family, port) == <<cmd, " ", family, " ">> \o Itoa(port) \o <<"\n">>

CtlLines ==
    {CtlLine(cmd, family, p) : cmd \in {"LISTEN", "CLOSE"},
                               family \in {"tcp4", "tcp6"}, p \in Ports}

\* strings.Fields: the maximal runs of non-space symbols
RECURSIVE FieldsFrom(_, _)
FieldsFrom(s, cur) ==
    IF s = <<>> THEN (IF cur = <<>> THEN <<>> ELSE <<cur>>)
    ELSE IF IsSpace(Head(s))
         THEN (IF cur = <<>> THEN <<>> ELSE <<cur>>) \o FieldsFrom(Tail(s), <<>>)
         ELSE FieldsFrom(Tail(s), Append(cur, Head(s)))

Fields(s) == FieldsFrom(s, <<>>)

\* bufio.Scanner (ScanLines): the line without its terminator
ScanLine(raw) ==
    IF raw # <<>> /\ raw[Len(raw)] = "\n" THEN SubSeq(raw, 1, Len(raw) - 1) ELSE raw

\* the parse of handleControlConnection: [cmd, port], cmd "" for a skipped line
ParseCtl(raw) ==
    LET line  == TrimSpace(ScanLine(raw))
        parts == Fields(line)
    IN  IF line = <<>> \/ Len(parts) < 3 THEN [cmd |-> "", port |-> 0]
        ELSE LET port == Atoi(parts[3]) IN
             IF ~port.ok THEN [cmd |-> "", port |-> 0]
             ELSE IF Len(parts[1]) = 1 /\ parts[1][1] \in {"LISTEN", "CLOSE"}
                  THEN [cmd |-> parts[1][1], port |-> port.val]
                  ELSE [cmd |-> "", port |-> 0]

RECURSIVE SumOver(_, _)
SumOver(f, S) ==
    IF S = {} THEN 0
    ELSE LET x == CHOOSE y \in S : TRUE IN f[x] + SumOver(f, S \ {x})

\* the control lines handled so far
Handled == SumOver(nListen, Ports) + SumOver(nClose, Ports)

HasEntry(port) == \E e \in exporters : e.port = port

Entry(port) == CHOOSE e \in exporters : e.port = port

\* em.exporters[port] = exp
MapPut(m, exp) == {e \in m : e.port # exp.port} \cup {exp}

\* delete(em.exporters, port)
MapDelete(m, port) == {e \in m : e.port # port}

\* startExporter, given whether em.server.Listen succeeded; the entry's
\* context is a child of em.ctx: it is born cancelled once em.cancel() ran
startExporter(port, ok) ==
    IF ~ok
    THEN /\ emLog' = "listen failed"
         /\ UNCHANGED <<exporters, listeners>>
    ELSE /\ listeners' = Append(listeners, [port |-> port, open |-> TRUE,
                                            cancelled |-> emPc # "run"])
         /\ exporters' = MapPut(exporters, [port |-> port, refcount |-> 1,
                                            lid |-> Len(listeners) + 1])
         /\ emLog' = "exporting"

\* stopExporter that forgets to close the overlay listener
ListenersAfterStopNoClose(ls, lid) == [ls EXCEPT ![lid].cancelled = TRUE]

\* stopExporter on the listener: exp.cancel(), then exp.listener.Close()
ListenersAfterStop(ls, lid) ==
    [ls EXCEPT ![lid].cancelled = TRUE, ![lid].open = FALSE]

\* stopExporter that leaves the entry in the map
stopExporterNoDelete(port) ==
    /\ listeners' = ListenersAfterStop(listeners, Entry(port).lid)
    /\ exporters' = MapPut(exporters, [Entry(port) EXCEPT !.refcount = 0])

\* stopExporter, called with an entry present (refcount already lowered)
stopExporter(port) ==
    /\ listeners' = ListenersAfterStop(listeners, Entry(port).lid)
    /\ exporters' = MapDelete(exporters, port)

\* handleListen without the policy check
handleListenNoPolicy(port, ok) ==
    IF HasEntry(port)
    THEN /\ exporters' = MapPut(exporters,
                                [Entry(port) EXCEPT !.refcount = @ + 1])
         /\ emLog' = "refcount up"
         /\ UNCHANGED listeners
    ELSE IF Cardinality(exporters) >= config.ExportMax
    THEN /\ emLog' = "max reached"
         /\ UNCHANGED <<exporters, listeners>>
    ELSE startExporter(port, ok)

\* handleListen whose cap test is off by one (> for >=)
handleListenCapOffByOne(port, ok) ==
    IF ~isPortAllowed(port)
    THEN /\ emLog' = "not allowed"
         /\ UNCHANGED <<exporters, listeners>>
    ELSE IF HasEntry(port)
    THEN /\ exporters' = MapPut(exporters,
                                [Entry(port) EXCEPT !.refcount = @ + 1])
         /\ emLog' = "refcount up"
         /\ UNCHANGED listeners
    ELSE IF Cardinality(exporters) > config.ExportMax
    THEN /\ emLog' = "max reached"
         /\ UNCHANGED <<exporters, listeners>>
    ELSE startExporter(port, ok)

handleListen(port, ok) ==
    IF ~isPortAllowed(port)
    THEN /\ emLog' = "not allowed"
         /\ UNCHANGED <<exporters, listeners>>
    ELSE IF HasEntry(port)
    THEN /\ exporters' = MapPut(exporters,
                                [Entry(port) EXCEPT !.refcount = @ + 1])
         /\ emLog' = "refcount up"
         /\ UNCHANGED listeners
    ELSE IF Cardinality(exporters) >= config.ExportMax
    THEN /\ emLog' = "max reached"
         /\ UNCHANGED <<exporters, listeners>>
    ELSE startExporter(port, ok)

\* handleClose that stops the exporter only below zero (< for <=)
handleCloseBelowZero(port) ==
    IF ~HasEntry(port)
    THEN /\ emLog' = "close: no entry"
         /\ UNCHANGED <<exporters, listeners>>
    ELSE IF Entry(port).refcount - 1 < 0
    THEN /\ emLog' = "stopping"
         /\ stopExporter(port)
    ELSE /\ exporters' = MapPut(exporters,
                                [Entry(port) EXCEPT !.refcount = @ - 1])
         /\ emLog' = "refcount down"
         /\ UNCHANGED listeners

\* handleClose that ignores the reference count
handleCloseAlwaysStop(port) ==
    IF ~HasEntry(port)
    THEN /\ emLog' = "close: no entry"
         /\ UNCHANGED <<exporters, listeners>>
    ELSE /\ emLog' = "stopping"
         /\ stopExporter(port)

handleClose(port) ==
    IF ~HasEntry(port)
    THEN /\ emLog' = "close: no entry"
         /\ UNCHANGED <<exporters, listeners>>
    ELSE IF Entry(port).refcount - 1 <= 0
    THEN /\ emLog' = "stopping"
         /\ stopExporter(port)
    ELSE /\ exporters' = MapPut(exporters,
                                [Entry(port) EXCEPT !.refcount = @ - 1])
         /\ emLog' = "refcount down"
         /\ UNCHANGED listeners

\* the switch of handleControlConnection on a parsed line
Dispatch(msg, ok) ==
    /\ msg.port \in Ports
    /\ Handled < MaxMsgs
    /\ ok => Len(listeners) < MaxListeners
    /\ \/ /\ msg.cmd = "LISTEN"
          /\ handleListen(msg.port, ok)
          /\ nListen' = [nListen EXCEPT ![msg.port] = @ + 1]
          /\ lateListen' = [lateListen EXCEPT
                               ![msg.port] = @ \/ nClose[msg.port] > 0]
          /\ UNCHANGED nClose
       \/ /\ msg.cmd = "CLOSE"
          /\ handleClose(msg.port)
          /\ nClose' = [nClose EXCEPT ![msg.port] = @ + 1]
          /\ UNCHANGED <<nListen, lateListen>>

\* handleControlConnection: one line read from some control connection and
\* handled; ok is the outcome of em.server.Listen should the line need it
HandleControlLine(raw, ok) ==
    \E msg \in {ParseCtl(raw)} :
    /\ msg.cmd # ""
    /\ Dispatch(msg, ok)
    /\ UNCHANGED <<config, emPc, polVars, extVars, shimVars, socksVars>>

\* Stop, first half: em.cancel(), which cancels the context of every entry
StopCancel ==
    /\ emPc = "run"
    /\ emPc' = "cancelled"
    /\ listeners' = [lid \in DOMAIN listeners |->
                        [listeners[lid] EXCEPT !.cancelled = TRUE]]
    /\ UNCHANGED <<config, exporters, emLog, nListen, nClose,
                   lateListen, polVars, extVars, shimVars, socksVars>>

\* Stop, second half: under em.mu, stopExporter for every port of the map
StopExporters ==
    /\ emPc = "cancelled"
    /\ emPc' = "stopped"
    /\ listeners' = [lid \in DOMAIN listeners |->
                        IF \E e \in exporters : e.lid = lid
                        THEN ListenersAfterStop(listeners, lid)[lid]
                        ELSE listeners[lid]]
    /\ exporters' = {}
    /\ UNCHANGED <<config, emLog, nListen, nClose, lateListen, polVars, extVars, shimVars,
                   socksVars>>

-----------------------------------------------------------------------------
(* The control socket of the export manager: the acceptor goroutine of      *)
(* StartControlSocket and handleControlConnection on an accepted            *)
(* connection (exporter.go).  One connection is live at a time.             *)

MaxCtlLines == 3      \* lines a peer writes on a control connection

MaxCtlConns == 1      \* control connections accepted over a run

\* lines a peer may write: well-formed ones, and one of each malformed kind
CtlInputs ==
    {CtlLine("LISTEN", "tcp4", 80), CtlLine("CLOSE", "tcp4", 80),
     CtlLine("LISTEN", "tcp6", 81),
     CtlLine("LISTEN", "udp", 80), CtlLine("OPEN", "tcp4", 80),
     <<"LISTEN", " ", "tcp4", "\n">>,
     <<"LISTEN", " ", "tcp4", " ", "8", "x", "\n">>,
     <<"\n">>}

\* the acceptor, top of its loop: select { case <-em.ctx.Done(): return;
\* default: }; the deferred listener.Close() runs on return
CtlAcceptorChecks ==
    /\ ctlPc = "check"
    /\ IF emPc # "run"
       THEN /\ ctlPc' = "returned"
            /\ ctlListener' = "closed"
       ELSE /\ ctlPc' = "accept"
            /\ UNCHANGED ctlListener
    /\ UNCHANGED <<ctlConn, ctlIn, nScanned, nConns>>
    /\ UNCHANGED <<config, emVars, shimVars, polVars, socksVars, mainVars, cfgVars, unitVars>>

\* the acceptor: listener.Accept() returns a connection, which gets its
\* handleControlConnection goroutine
CtlAccept ==
    /\ ctlPc = "accept"
    /\ ctlListener = "open"
    /\ ctlConn \in {"none", "closed"}
    /\ nConns < MaxCtlConns
    /\ nConns' = nConns + 1
    /\ ctlConn' = "open"
    /\ ctlIn' = <<>>
    /\ ctlPc' = "check"
    /\ UNCHANGED <<ctlListener, nScanned>>
    /\ UNCHANGED <<config, emVars, shimVars, polVars, socksVars, mainVars, cfgVars, unitVars>>

\* the peer writes a line on the connection
PeerWrites(raw) ==
    /\ ctlConn = "open"
    /\ nScanned + Len(ctlIn) < MaxCtlLines
    /\ ctlIn' = Append(ctlIn, raw)
    /\ UNCHANGED <<ctlPc, ctlListener, ctlConn, nScanned, nConns>>
    /\ UNCHANGED <<config, emVars, shimVars, polVars, socksVars, mainVars, cfgVars, unitVars>>

\* the peer closes its end
PeerCloses ==
    /\ ctlConn = "open"
    /\ ctlConn' = "eof"
    /\ UNCHANGED <<ctlPc, ctlListener, ctlIn, nScanned, nConns>>
    /\ UNCHANGED <<config, emVars, shimVars, polVars, socksVars, mainVars, cfgVars, unitVars>>

\* handleControlConnection, one turn of its loop: scanner.Scan() yields the
\* next line, which is skipped or dispatched
ScanControlLine(ok) ==
    /\ ctlConn \in {"open", "eof"}
    /\ ctlIn # <<>>
    /\ \E msg \in {ParseCtl(Head(ctlIn))} :
          IF msg.cmd = ""
          THEN /\ ok
               /\ UNCHANGED emVars
          ELSE /\ Dispatch(msg, ok)
               /\ UNCHANGED emPc
    /\ ctlIn' = Tail(ctlIn)
    /\ nScanned' = nScanned + 1
    /\ UNCHANGED <<ctlPc, ctlListener, ctlConn, nConns>>
    /\ UNCHANGED <<config, shimVars, polVars, socksVars, mainVars, cfgVars, unitVars>>

\* handleControlConnection: scanner.Scan() returns false at the end of the
\* input; the deferred conn.Close() runs
ControlHandlerReturns ==
    /\ ctlConn = "eof"
    /\ ctlIn = <<>>
    /\ ctlConn' = "closed"
    /\ UNCHANGED <<ctlPc, ctlListener, ctlIn, nScanned, nConns>>
    /\ UNCHANGED <<config, emVars, shimVars, polVars, socksVars, mainVars, cfgVars, unitVars>>

-----------------------------------------------------------------------------
(* Addresses: an IPv4 address is its 4 bytes, an IPv6 address its 16 bytes, *)
(* both in network order                                                    *)

Any4 == <<0, 0, 0, 0>>

Lo4 == <<127, 0, 0, 1>>

Lan4 == <<192, 168, 1, 5>>

Any6 == <<0, 0, 0, 0, 0, 0, 0, 0, 0, 0, 0, 0, 0, 0, 0, 0>>

Lo6 == <<0, 0, 0, 0, 0, 0, 0, 0, 0, 0, 0, 0, 0, 0, 0, 1>>

Lan6 == <<254, 128, 0, 0, 0, 0, 0, 0, 0, 0, 0, 0, 0, 0, 0, 5>>

SockAddr(family, addr, port) == [family |-> family, addr |-> addr, port |-> port]

\* (ntohl(s_addr) & 0xFF000000) == 0x7F000000: ntohl makes the first byte on
\* the wire the most significant one, the mask keeps it, and 0x7F is 127
InLoopbackNet(a) == a[1] = 127

\* memcmp(&addr_in6->sin6_addr, &loopback, sizeof(struct in6_addr)) == 0
IsIn6Loopback(a) == a = Lo6

\* the loopback addresses: 127.0.0.0/8 and ::1
IsLoopbackAddr(a) ==
    \/ Len(a) = 4 /\ a[1] = 127
    \/ Len(a) = 16 /\ a = Lo6

-----------------------------------------------------------------------------
(* The kernel behind the original primitives (real_bind, real_listen,      *)
(* real_close, real_connect, getsockname), as the shim's calls see it      *)

ClosedSock ==
    [open |-> FALSE, type |-> "none", domain |-> "none", bound |-> FALSE,
     addr |-> <<>>, port |-> 0, listening |-> FALSE]

NewSock(domain, type) ==
    [open |-> TRUE, type |-> type, domain |-> domain, bound |-> FALSE,
     addr |-> <<>>, port |-> 0, listening |-> FALSE]

\* the ports the kernel hands out for a bind to port 0 or an implicit bind
EphemeralPorts == {82}

DomainFamily(domain) ==
    CASE domain = "inet"  -> "AF_INET"
      [] domain = "inet6" -> "AF_INET6"
      [] domain = "unix"  -> "AF_UNIX"
      [] OTHER            -> "AF_UNSPEC"

WildcardOf(domain) == IF domain = "inet6" THEN Any6 ELSE Any4

\* bind(2) accepts the address for the socket: the socket's own family, or,
\* on an IPv4 socket, AF_UNSPEC with INADDR_ANY
BindAccepts(s, a) ==
    /\ s.open
    /\ ~s.bound
    /\ \/ a.family = DomainFamily(s.domain)
       \/ s.domain = "inet" /\ a.family = "AF_UNSPEC" /\ a.addr = Any4

\* real_bind(sockfd, a): the sockets it can leave behind when it returns 0
\* (it can also fail and leave the socket as it was)
RealBindResults(s, a) ==
    IF ~BindAccepts(s, a) THEN {}
    ELSE {[s EXCEPT !.bound = TRUE, !.addr = a.addr, !.port = p] :
             p \in (IF a.port = 0 /\ s.domain # "unix" THEN EphemeralPorts
                    ELSE {a.port})}

\* real_listen(sockfd, backlog): the sockets it can leave behind when it
\* returns 0; an unbound TCP socket is bound to the wildcard address and an
\* ephemeral port first
RealListenResults(s) ==
    IF ~s.open \/ s.type # "stream" THEN {}
    ELSE IF s.bound THEN {[s EXCEPT !.listening = TRUE]}
    ELSE IF s.domain = "unix" THEN {}
    ELSE {[s EXCEPT !.bound = TRUE, !.addr = WildcardOf(s.domain), !.port = p,
                    !.listening = TRUE] : p \in EphemeralPorts}

\* getsockname after a successful listen: [ss_family, port]
GetSockName(s) == [ss_family |-> DomainFamily(s.domain), port |-> s.port]

\* real_connect(sockfd, target) can succeed: the address is of the socket's
\* family and somebody listens there
RealConnectCanSucceed(s, target, peerListens) ==
    /\ s.open
    /\ target.family = DomainFamily(s.domain)
    /\ peerListens

-----------------------------------------------------------------------------
(* The preload shim: unnamed/part_003 (the C library)                      *)

MAX_FDS == 65536

\* the descriptors the application uses
Fds == {3, 4}

MaxCalls == 5         \* application calls (socket, bind, listen, close) per run

SendBufCap == 2       \* lines the control connection's send buffer holds

ZeroEntry == [is_tcp |-> FALSE, is_listener |-> FALSE, family |-> "AF_UNSPEC",
              port |-> 0]

InRange(fd) == fd >= 0 /\ fd < MAX_FDS

\* proxy_host : proxy_port, the address connect() redirects to
ProxyAddr == SockAddr("AF_INET", Lo4, 1080)

\* the supervisor's control socket, as send_control_message addresses it
ControlAddr == SockAddr("AF_UNIX", <<>>, 0)

\* connect(): the address the shim hands to real_connect for a socket of the
\* given type: the caller's for a non-stream socket and for an IPv4
\* destination in 127.0.0.0/8, the SOCKS5 proxy's otherwise
ConnectTarget(type, addr) ==
    IF type # "stream" THEN addr
    ELSE IF addr.family = "AF_INET" /\ InLoopbackNet(addr.addr) THEN addr
    ELSE ProxyAddr

\* the descriptor socket(AF_UNIX, SOCK_STREAM, 0) returns for the control
\* channel; free descriptors have zeroed fd_table entries, so the close() of
\* it after a failed connect clears nothing
CtrlFd == 9

\* send_control_message: the lazy open of control_fd goes through the
\* library's own connect(); TRUE when control_fd ends up connected
ControlOpenSucceeds ==
    LET s      == NewSock("unix", "stream")
        target == ConnectTarget(s.type, ControlAddr)
    IN  RealConnectCanSucceed(s, target, target = ControlAddr /\ supListening)

\* send_control_message(msg): the pairs <<control_fd', ctrlInbox'>> it can
\* leave behind (socket() can fail, a full send buffer drops the line)
SendControlResults(msg) ==
    IF ~export_enabled \/ control_socket = ""
    THEN {<<control_fd, ctrlInbox>>}
    ELSE IF control_fd < 0 /\ ~ControlOpenSucceeds
    THEN {<<-1, ctrlInbox>>}
    ELSE LET fd == IF control_fd < 0 THEN CtrlFd ELSE control_fd IN
         {<<fd, IF Len(ctrlInbox) < SendBufCap THEN Append(ctrlInbox, msg)
                ELSE ctrlInbox>>}
         \cup (IF control_fd < 0 THEN {<<-1, ctrlInbox>>} ELSE {})

\* the family token without the IPv6 case
FamilyStrTcp4Only(ss_family) == "tcp4"

FamilyStr(ss_family) == IF ss_family = "AF_INET6" THEN "tcp6" ELSE "tcp4"

\* lastCall: the last call of the application as the shim carried it out:
\* the address it was given (req), the address it handed to the original
\* primitive (passed), the value it returned (ret) and the lines it handed to
\* send_control_message (msgs)
NoAddr == SockAddr("AF_UNSPEC", <<>>, 0)

CallRec(op, fd, req, passed, ret, msgs) ==
    [op |-> op, fd |-> fd, req |-> req, passed |-> passed, ret |-> ret,
     msgs |-> msgs]

NoCall == CallRec("none", -1, NoAddr, NoAddr, 0, <<>>)

\* send_control_message reaches its lazy open: socket(AF_UNIX, ...) is called
OpenAttempted == export_enabled /\ control_socket # "" /\ control_fd < 0

\* ctlOpen after a send_control_message that left control_fd as fdAfter
CtlOpenAfter(fdAfter) ==
    IF ~OpenAttempted THEN ctlOpen
    ELSE [failed  |-> ctlOpen.failed \/ fdAfter < 0,
          retried |-> ctlOpen.retried \/ ctlOpen.failed]

NoneSent == [listen |-> 0, close |-> 0]

\* listen() and close() returning -1 when the control line was not taken
ShimReturnNeedsChannel(ret, fdAfter) == IF fdAfter < 0 THEN -1 ELSE ret

\* the value listen() and close() return after send_control_message has left
\* control_fd as fdAfter: that of the original primitive
ShimReturn(ret, fdAfter) == ret

\* the application creates a socket on a free descriptor
AppSocket(fd, domain, type) ==
    /\ nCalls < MaxCalls
    /\ ~sock[fd].open
    /\ sock' = [sock EXCEPT ![fd] = NewSock(domain, type)]
    /\ nCalls' = nCalls + 1
    /\ lastCall' = CallRec("socket", fd, NoAddr, NoAddr, fd, <<>>)
    /\ sent' = [sent EXCEPT ![fd] = NoneSent]
    /\ UNCHANGED <<export_enabled, control_socket, control_fd, fd_table,
                   supListening, ctrlInbox, ctlOpen, config, emVars, polVars,
                   extVars, socksVars>>

\* the rewrite of bind() with the port of the rewritten address left zero
BindRewriteDropsPort(addr) ==
    IF addr.family = "AF_INET" /\ ~InLoopbackNet(addr.addr)
    THEN [addr EXCEPT !.addr = Lo4, !.port = 0]
    ELSE IF addr.family = "AF_INET6" /\ ~IsIn6Loopback(addr.addr)
    THEN [addr EXCEPT !.addr = Lo6, !.port = 0]
    ELSE addr

\* bind(): the address the shim passes to real_bind
BindRewrite(addr) ==
    IF addr.family = "AF_INET" /\ ~InLoopbackNet(addr.addr)
    THEN [addr EXCEPT !.addr = Lo4]
    ELSE IF addr.family = "AF_INET6" /\ ~IsIn6Loopback(addr.addr)
    THEN [addr EXCEPT !.addr = Lo6]
    ELSE addr

\* intercepted bind(sockfd, addr); ok is whether real_bind returns 0
Bind(fd, addr, ok) ==
    /\ nCalls < MaxCalls
    /\ nCalls' = nCalls + 1
    /\ LET tracked == export_enabled /\ sock[fd].open /\ sock[fd].type = "stream"
           passed  == IF tracked THEN BindRewrite(addr) ELSE addr
       IN  /\ fd_table' = IF tracked /\ InRange(fd)
                          THEN [fd_table EXCEPT ![fd].is_tcp = TRUE,
                                                ![fd].family = addr.family]
                          ELSE fd_table
           /\ IF ok
              THEN \E s \in RealBindResults(sock[fd], passed) :
                       sock' = [sock EXCEPT ![fd] = s]
              ELSE sock' = sock
           /\ lastCall' = CallRec("bind", fd, addr, passed,
                                  IF ok THEN 0 ELSE -1, <<>>)
    /\ UNCHANGED <<export_enabled, control_socket, control_fd, supListening,
                   ctrlInbox, ctlOpen, sent, config, emVars, polVars, extVars,
                   socksVars>>

\* intercepted listen(sockfd, backlog); ok is whether real_listen returns 0
Listen(fd, ok) ==
    /\ nCalls < MaxCalls
    /\ nCalls' = nCalls + 1
    /\ IF ~ok
       THEN /\ UNCHANGED <<sock, fd_table, control_fd, ctrlInbox, ctlOpen, sent>>
            /\ lastCall' = CallRec("listen", fd, NoAddr, NoAddr, -1, <<>>)
       ELSE \E s \in RealListenResults(sock[fd]) :
              /\ sock' = [sock EXCEPT ![fd] = s]
              /\ IF export_enabled /\ InRange(fd) /\ fd_table[fd].is_tcp
                 THEN LET name == GetSockName(s)
                          port == IF name.ss_family \in {"AF_INET", "AF_INET6"}
                                  THEN name.port ELSE 0
                          line == CtlLine("LISTEN", FamilyStr(name.ss_family), port)
                      IN  /\ fd_table' = [fd_table EXCEPT ![fd].is_listener = TRUE,
                                                          ![fd].port = port]
                          /\ IF port > 0
                             THEN \E r \in SendControlResults(line) :
                                      /\ control_fd' = r[1]
                                      /\ ctrlInbox' = r[2]
                                      /\ ctlOpen' = CtlOpenAfter(r[1])
                                      /\ sent' = [sent EXCEPT ![fd].listen = @ + 1]
                                      /\ lastCall' = CallRec("listen", fd, NoAddr,
                                             NoAddr, ShimReturn(0, r[1]), <<line>>)
                             ELSE /\ UNCHANGED <<control_fd, ctrlInbox, ctlOpen, sent>>
                                  /\ lastCall' = CallRec("listen", fd, NoAddr,
                                                         NoAddr, 0, <<>>)
                 ELSE /\ UNCHANGED <<fd_table, control_fd, ctrlInbox, ctlOpen, sent>>
                      /\ lastCall' = CallRec("listen", fd, NoAddr, NoAddr, 0, <<>>)
    /\ UNCHANGED <<export_enabled, control_socket, supListening, config, emVars,
                   polVars, extVars, socksVars>>

\* intercepted close(fd): the CLOSE line, the cleared entry, then real_close,
\* which fails on a descriptor that is not open
Close(fd) ==
    /\ nCalls < MaxCalls
    /\ nCalls' = nCalls + 1
    /\ LET ret == IF sock[fd].open THEN 0 ELSE -1 IN
       IF export_enabled /\ InRange(fd)
       THEN /\ fd_table' = [fd_table EXCEPT ![fd] = ZeroEntry]
            /\ IF fd_table[fd].is_listener /\ fd_table[fd].port > 0
               THEN LET line == CtlLine("CLOSE",
                                    IF fd_table[fd].family = "AF_INET" THEN "tcp4"
                                    ELSE "tcp6",
                                    fd_table[fd].port)
                    IN  \E r \in SendControlResults(line) :
                            /\ control_fd' = r[1]
                            /\ ctrlInbox' = r[2]
                            /\ ctlOpen' = CtlOpenAfter(r[1])
                            /\ sent' = [sent EXCEPT ![fd].close = @ + 1]
                            /\ lastCall' = CallRec("close", fd, NoAddr, NoAddr,
                                                   ShimReturn(ret, r[1]), <<line>>)
               ELSE /\ UNCHANGED <<control_fd, ctrlInbox, ctlOpen, sent>>
                    /\ lastCall' = CallRec("close", fd, NoAddr, NoAddr, ret, <<>>)
       ELSE /\ UNCHANGED <<fd_table, control_fd, ctrlInbox, ctlOpen, sent>>
            /\ lastCall' = CallRec("close", fd, NoAddr, NoAddr, ret, <<>>)
    /\ sock' = [sock EXCEPT ![fd] = ClosedSock]
    /\ UNCHANGED <<export_enabled, control_socket, supListening, config, emVars,
                   polVars, extVars, socksVars>>

\* the addresses the application binds to
BindAddrs ==
    {SockAddr("AF_INET", a, 80) : a \in {Any4, Lo4, Lan4}}
    \cup {SockAddr("AF_INET6", a, 80) : a \in {Any6, Lo6, Lan6}}
    \cup {SockAddr("AF_INET", Any4, 0), SockAddr("AF_UNSPEC", Any4, 80),
          SockAddr("AF_UNIX", <<>>, 0)}

-----------------------------------------------------------------------------
(* Go net text forms, as proxy.go builds the dial target and as the mesh    *)
(* dialer reads it back: fmt.Sprintf, net.IP.String, net.JoinHostPort,      *)
(* net.SplitHostPort, net.ParseIP                                           *)

HexChars == <<"0", "1", "2", "3", "4", "5", "6", "7", "8", "9",
              "a", "b", "c", "d", "e", "f">>

IsHexDigit(c) == \E i \in 1..16 : HexChars[i] = c

HexVal(c) == (CHOOSE i \in 1..16 : HexChars[i] = c) - 1

\* appendHex: lower-case hexadecimal without leading zeros
RECURSIVE Hex(_)
Hex(n) == IF n < 16 THEN <<HexChars[n + 1]>>
          ELSE Append(Hex(n \div 16), HexChars[(n % 16) + 1])

RECURSIVE HexValue(_, _)
HexValue(s, acc) ==
    IF s = <<>> THEN acc ELSE HexValue(Tail(s), acc * 16 + HexVal(Head(s)))

\* the 12 bytes in front of an IPv4 address in its 16-byte form (v4InV6Prefix)
V4InV6Prefix == <<0, 0, 0, 0, 0, 0, 0, 0, 0, 0, 255, 255>>

\* IP.To16 of the address bytes a sockaddr carries
To16(a) == IF Len(a) = 4 THEN V4InV6Prefix \o a ELSE a

\* IP.To4 succeeds on a 16-byte address
IsV4InV6(p) == Len(p) = 16 /\ SubSeq(p, 1, 12) = V4InV6Prefix

\* fmt.Sprintf("%d.%d.%d.%d", b[1], b[2], b[3], b[4])
DottedQuad(b) ==
    Itoa(b[1]) \o <<".">> \o Itoa(b[2]) \o <<".">> \o Itoa(b[3]) \o <<".">> \o Itoa(b[4])

\* the i-th 16-bit group of a 16-byte address
Group(p, i) == p[2 * i - 1] * 256 + p[2 * i]

\* the number of consecutive zero groups from group i on
RECURSIVE ZeroRun(_, _)
ZeroRun(p, i) == IF i > 8 \/ Group(p, i) # 0 THEN 0 ELSE 1 + ZeroRun(p, i + 1)

\* the text of the groups from i on, with groups e0 .. e1-1 written as "::"
RECURSIVE RenderGroups(_, _, _, _)
RenderGroups(p, i, e0, e1) ==
    IF i > 8 THEN <<>>
    ELSE IF i = e0
    THEN <<":", ":">> \o (IF e1 > 8 THEN <<>>
                          ELSE Hex(Group(p, e1)) \o RenderGroups(p, e1 + 1, e0, e1))
    ELSE (IF i > 1 THEN <<":">> ELSE <<>>) \o Hex(Group(p, i))
             \o RenderGroups(p, i + 1, e0, e1)

\* net.IP(p).String() of 16 bytes: dotted quad for an IPv4-mapped address,
\* else groups in hexadecimal with the first longest run of two or more zero
\* groups written as "::"
IPString(p) ==
    IF IsV4InV6(p) THEN DottedQuad(SubSeq(p, 13, 16))
    ELSE LET longest == CHOOSE n \in 0..8 :
                            /\ \E i \in 1..8 : ZeroRun(p, i) = n
                            /\ \A i \in 1..8 : ZeroRun(p, i) <= n
             e0 == IF longest < 2 THEN 0
                   ELSE CHOOSE i \in 1..8 :
                            /\ ZeroRun(p, i) = longest
                            /\ \A j \in 1..(i - 1) : ZeroRun(p, j) < longest
         IN  RenderGroups(p, 1, e0, e0 + longest)

\* net.JoinHostPort: a host with a colon in it goes in square brackets
JoinHostPort(host, port) ==
    IF Contains(host, ":") THEN <<"[">> \o host \o <<"]", ":">> \o port
    ELSE host \o <<":">> \o port

\* the last index of c in s, 0 when there is none
LastIndex(s, c) ==
    IF Contains(s, c) THEN CHOOSE i \in 1..Len(s) :
                               s[i] = c /\ \A j \in (i + 1)..Len(s) : s[j] # c
    ELSE 0

\* net.SplitHostPort: [ok, host, port]
SplitHostPort(hostport) ==
    LET i    == LastIndex(hostport, ":")
        bad  == [ok |-> FALSE, host |-> <<>>, port |-> <<>>]
        port == SubSeq(hostport, i + 1, Len(hostport))
    IN  IF i = 0 THEN bad
        ELSE IF Head(hostport) = "["
        THEN IF i > 2 /\ hostport[i - 1] = "]"
                  /\ ~Contains(SubSeq(hostport, 2, i - 2), "]")
             THEN [ok |-> TRUE, host |-> SubSeq(hostport, 2, i - 2), port |-> port]
             ELSE bad
        ELSE IF Contains(SubSeq(hostport, 1, i - 1), ":") THEN bad
        ELSE [ok |-> TRUE, host |-> SubSeq(hostport, 1, i - 1), port |-> port]

\* one decimal field of a dotted quad: [ok, val]
ParseDecByte(s) ==
    IF AllDigits(s) /\ Len(s) <= 3 /\ DigitsValue(s, 0) <= 255
    THEN [ok |-> TRUE, val |-> DigitsValue(s, 0)]
    ELSE [ok |-> FALSE, val |-> 0]

\* one hexadecimal group of an IPv6 text: [ok, val]
ParseHexGroup(s) ==
    IF s # <<>> /\ Len(s) <= 4 /\ \A i \in 1..Len(s) : IsHexDigit(s[i])
    THEN [ok |-> TRUE, val |-> HexValue(s, 0)]
    ELSE [ok |-> FALSE, val |-> 0]

\* the groups of a colon-separated list, <<>> for the empty text
GroupTexts(s) == IF s = <<>> THEN <<>> ELSE Split(s, ":")

RECURSIVE GroupBytes(_)
GroupBytes(gs) ==
    IF gs = <<>> THEN <<>>
    ELSE <<ParseHexGroup(Head(gs)).val \div 256, ParseHexGroup(Head(gs)).val % 256>>
             \o GroupBytes(Tail(gs))

\* net.ParseIP: [ok, ip], ip in the 16-byte form
ParseIP(s) ==
    LET bad == [ok |-> FALSE, ip |-> <<>>] IN
    IF Contains(s, ":")
    THEN LET k     == IF \E i \in 1..(Len(s) - 1) : s[i] = ":" /\ s[i + 1] = ":"
                      THEN CHOOSE i \in 1..(Len(s) - 1) :
                               /\ s[i] = ":" /\ s[i + 1] = ":"
                               /\ \A j \in 1..(i - 1) : ~(s[j] = ":" /\ s[j + 1] = ":")
                      ELSE 0
             left  == GroupTexts(IF k = 0 THEN s ELSE SubSeq(s, 1, k - 1))
             right == GroupTexts(IF k = 0 THEN <<>> ELSE SubSeq(s, k + 2, Len(s)))
             n     == Len(left) + Len(right)
             allOk == /\ \A i \in 1..Len(left) : ParseHexGroup(left[i]).ok
                      /\ \A i \in 1..Len(right) : ParseHexGroup(right[i]).ok
         IN  IF ~allOk THEN bad
             ELSE IF k = 0
             THEN IF n = 8 THEN [ok |-> TRUE, ip |-> GroupBytes(left)] ELSE bad
             ELSE IF n > 7 THEN bad
             ELSE [ok |-> TRUE,
                   ip |-> GroupBytes(left) \o [i \in 1..(2 * (8 - n)) |-> 0]
                              \o GroupBytes(right)]
    ELSE LET parts == Split(s, ".") IN
         IF Len(parts) = 4 /\ \A i \in 1..4 : ParseDecByte(parts[i]).ok
         THEN [ok |-> TRUE,
               ip |-> V4InV6Prefix \o [i \in 1..4 |-> ParseDecByte(parts[i]).val]]
         ELSE bad

\* what a dial of "tcp", target connects to: [ok, ip, port]
DialedEndpoint(target) ==
    LET hp == SplitHostPort(target)
        ip == ParseIP(hp.host)
        pt == Atoi(hp.port)
    IN  IF hp.ok /\ ip.ok /\ pt.ok /\ pt.val >= 0 /\ pt.val <= 65535
        THEN [ok |-> TRUE, ip |-> ip.ip, port |-> pt.val]
        ELSE [ok |-> FALSE, ip |-> <<>>, port |-> 0]

-----------------------------------------------------------------------------
(* One SOCKS5 session: connect() and socks5_connect in the child            *)
(* (unnamed/part_003), handleConnection in the supervisor (proxy.go).       *)
(* c2s and s2c are the two byte streams of the TCP connection to the proxy. *)

MaxSessions == 1      \* connections made per run, one session at a time

NoDest == SockAddr("AF_UNSPEC", <<>>, 0)

\* sin_port / sin6_port in memory: the port in network byte order
Htons(port) == <<port \div 256, port % 256>>

\* socks5_connect: the CONNECT request for the caller's address;
\* <<>> when the family is neither AF_INET nor AF_INET6 (EAFNOSUPPORT)
Socks5Request(addr) ==
    IF addr.family = "AF_INET"
    THEN <<5, 1, 0, 1>> \o addr.addr \o Htons(addr.port)
    ELSE IF addr.family = "AF_INET6"
    THEN <<5, 1, 0, 4>> \o addr.addr \o Htons(addr.port)
    ELSE <<>>

\* handleConnection's port with the bytes taken low byte first
DecodePortLowFirst(hi, lo) == (lo * 256 + hi) % 65536

\* uint16(hi)<<8 | uint16(lo)
DecodePort(hi, lo) == (hi * 256 + lo) % 65536

\* string(buf[...]) for one byte of a domain name: digits, '-', '.', ':' and
\* the lower-case letters a-f; "?" stands for every other byte
ByteChar(b) ==
    IF b >= 48 /\ b <= 57 THEN DigitChars[b - 47]
    ELSE IF b >= 97 /\ b <= 102 THEN HexChars[b - 86]
    ELSE IF b = 45 THEN "-"
    ELSE IF b = 46 THEN "."
    ELSE IF b = 58 THEN ":"
    ELSE "?"

SuccessReply == <<5, 0, 0, 1, 0, 0, 0, 0, 0, 0>>

FailureReply(rep) == <<5, rep, 0, 1, 0, 0, 0, 0, 0, 0>>

\* the reply of a server that reports success whatever the dial returned
ReplyOptimistic(dialOk) == SuccessReply

\* handleConnection after p.server.Dial: the reply written for its result
ReplyToDial(dialOk) == IF dialOk THEN SuccessReply ELSE FailureReply(5)

\* handleConnection from the request read on, for the n bytes buf the read
\* returned: [dial, target, reply]; dial says whether p.server.Dial is called
\* with target, reply is what is written back when the dial returns dialOk
\* (<<>>: the connection is closed without a reply)
ParseRequest(buf, dialOk) ==
    LET n      == Len(buf)
        noDial == [dial |-> FALSE, target |-> <<>>, reply |-> <<>>]
        dialTo(host, port) ==
            [dial   |-> TRUE,
             target |-> JoinHostPort(host, Itoa(port)),
             reply  |-> ReplyToDial(dialOk)]
    IN  IF n < 7 \/ buf[1] # 5 THEN noDial
        ELSE IF buf[2] # 1 THEN [noDial EXCEPT !.reply = FailureReply(7)]
        ELSE IF buf[4] = 1
        THEN IF n < 10 THEN noDial
             ELSE dialTo(DottedQuad(SubSeq(buf, 5, 8)), DecodePort(buf[9], buf[10]))
        ELSE IF buf[4] = 3
        THEN IF n < 5 \/ n < 5 + buf[5] + 2 THEN noDial
             ELSE dialTo([i \in 1..buf[5] |-> ByteChar(buf[5 + i])],
                         DecodePort(buf[5 + buf[5] + 1], buf[5 + buf[5] + 2]))
        ELSE IF buf[4] = 4
        THEN IF n < 22 THEN noDial
             ELSE dialTo(IPString(SubSeq(buf, 5, 20)), DecodePort(buf[21], buf[22]))
        ELSE [noDial EXCEPT !.reply = FailureReply(8)]

MaxPayload == 1       \* payload bytes each side sends once the tunnel is up

PayloadByte == 42

\* one step of handleConnection as seen on its two connections: ev is "read",
\* "write" (client connection), "dial" (data: the target, ok: its result),
\* "up" and "down" (bytes copied to and from the remote connection), "close"
Event(ev, data, ok) == [ev |-> ev, data |-> data, ok |-> ok]

\* what connect() did to the socket and to errno: the addresses real_connect
\* was called with, O_NONBLOCK before the call and now, the number of
\* fcntl(F_SETFL) calls, the bytes the two recv calls returned, and errno
\* ("unchanged": not written during the call; "kernel": left by a failed
\* real_connect)
ConnectCall(was_nonblocking) ==
    [was_nonblocking |-> was_nonblocking, nonblock |-> was_nonblocking,
     setfl |-> 0, real |-> <<>>, greeting |-> <<>>, reply |-> <<>>,
     errno |-> "unchanged", sent |-> 0]

\* the fcntl calls of a connect() that clears O_NONBLOCK and never sets it back
SetFlagsNoRestore(call, clear) ==
    IF call.was_nonblocking /\ clear
    THEN [call EXCEPT !.setfl = @ + 1, !.nonblock = FALSE]
    ELSE call

\* if (was_nonblocking) fcntl(sockfd, F_SETFL, ...): clear is TRUE for
\* flags & ~O_NONBLOCK, FALSE for the saved flags
SetFlags(call, clear) ==
    IF call.was_nonblocking
    THEN [call EXCEPT !.setfl = @ + 1, !.nonblock = ~clear]
    ELSE call

\* the greeting check with the length test only
GreetingOkAnyVersion(buf) == Len(buf) >= 2

\* handleConnection: n >= 2 && buf[0] == 0x05
GreetingOk(buf) == Len(buf) >= 2 /\ buf[1] = 5

\* the relay of a session: whether the client and the remote end have closed
\* their connection, and whether the two io.Copy goroutines have returned
NoSplice == [clientClosed |-> FALSE, remoteClosed |-> FALSE,
             upDone |-> FALSE, downDone |-> FALSE]

\* the session variables before a connect() and for a connect() that never
\* reaches the proxy
NoSession ==
    /\ c2s' = <<>>
    /\ s2c' = <<>>
    /\ sPc' = "none"
    /\ dials' = <<>>
    /\ sLog' = <<>>
    /\ splice' = NoSplice

\* the previous connection is over: connect() returned without reaching the
\* proxy, or it failed and nothing is relayed, or handleConnection returned
SessionOver ==
    \/ cPc \in {"idle", "direct", "proxy_failed"}
    \/ cPc = "failed" /\ sPc # "splice"
    \/ cPc \in {"failed", "connected", "foreign"} /\ sPc = "closed"

\* what real_connect to the proxy address can come to on a socket of the
\* proxy's family: a connection (at once, or after EINPROGRESS and poll); -1
\* with an errno other than EINPROGRESS; EINPROGRESS followed by a poll that
\* times out; EINPROGRESS followed by a pending socket error
ProxyOutcomes == {"accepts", "refuses", "timeout", "late_error"}

\* intercepted connect(sockfd, dest) on a fresh socket, up to the first recv of
\* socks5_connect; proxy is what the connection to the SOCKS5 server comes to
Connect(domain, type, dest, was_nonblocking, proxy) ==
    /\ nSess < MaxSessions
    /\ SessionOver
    /\ nSess' = nSess + 1
    /\ cSock' = NewSock(domain, type)
    /\ cDest' = dest
    /\ LET s    == NewSock(domain, type)
           call == ConnectCall(was_nonblocking)
           viaProxy == [SetFlags(call, TRUE) EXCEPT !.real = <<ProxyAddr>>]
       IN
       IF ConnectTarget(type, dest) = dest
       THEN /\ cPc' = "direct"
            /\ cCall' = [call EXCEPT !.real = <<dest>>]
            /\ NoSession
       ELSE IF ~RealConnectCanSucceed(s, ProxyAddr, proxy # "refuses")
       THEN /\ cPc' = "proxy_failed"
            /\ cCall' = [SetFlags(viaProxy, FALSE) EXCEPT !.errno = "kernel"]
            /\ NoSession
       ELSE IF proxy = "timeout"
       THEN /\ cPc' = "proxy_failed"
            /\ cCall' = [SetFlags(viaProxy, FALSE) EXCEPT !.errno = "ETIMEDOUT"]
            /\ NoSession
       ELSE IF proxy = "late_error"
       THEN /\ cPc' = "proxy_failed"
            /\ cCall' = [SetFlags(viaProxy, FALSE) EXCEPT !.errno = "SO_ERROR"]
            /\ NoSession
       ELSE /\ cPc' = "greeting_sent"
            /\ cCall' = viaProxy
            /\ c2s' = <<5, 1, 0>>
            /\ s2c' = <<>>
            /\ sPc' = "greeting"
            /\ dials' = <<>>
            /\ sLog' = <<>>
            /\ splice' = NoSplice
    /\ UNCHANGED <<config, emVars, shimVars, polVars, extVars>>

\* another program of the machine connects to the proxy port and sends first
ForeignConnect(first) ==
    /\ nSess < MaxSessions
    /\ SessionOver
    /\ nSess' = nSess + 1
    /\ cSock' = NewSock("inet", "stream")
    /\ cDest' = NoDest
    /\ cPc' = "foreign"
    /\ cCall' = ConnectCall(FALSE)
    /\ c2s' = first
    /\ s2c' = <<>>
    /\ sPc' = "greeting"
    /\ dials' = <<>>
    /\ sLog' = <<>>
    /\ splice' = NoSplice
    /\ UNCHANGED <<config, emVars, shimVars, polVars, extVars>>

\* that program sends its request, whether or not the greeting was answered
ForeignSend(req) ==
    /\ cPc = "foreign"
    /\ sPc \in {"greeting", "request"}
    /\ cCall.sent = 0
    /\ cCall' = [cCall EXCEPT !.sent = 1]
    /\ c2s' = c2s \o req
    /\ UNCHANGED <<splice, cSock, cDest, cPc, s2c, sPc, dials, sLog, nSess, config,
                   emVars, shimVars, polVars, extVars>>

\* handleConnection: the first Read returns n bytes of the greeting
ServerGreeting(n) ==
    /\ sPc = "greeting"
    /\ n \in 1..Len(c2s)
    /\ LET buf == SubSeq(c2s, 1, n) IN
       IF ~GreetingOk(buf)
       THEN /\ sPc' = "closed"
            /\ c2s' = <<>>
            /\ s2c' = s2c
            /\ sLog' = sLog \o <<Event("read", buf, TRUE),
                                 Event("close", <<>>, TRUE)>>
       ELSE /\ sPc' = "request"
            /\ c2s' = SubSeq(c2s, n + 1, Len(c2s))
            /\ s2c' = s2c \o <<5, 0>>
            /\ sLog' = sLog \o <<Event("read", buf, TRUE),
                                 Event("write", <<5, 0>>, TRUE)>>
    /\ UNCHANGED <<splice, cSock, cDest, cPc, cCall, dials, nSess, config, emVars,
                   shimVars, polVars, extVars>>

\* recv(sockfd, buf, max, 0) on the client: the counts it can return, 0 at
\* the end of a stream the server has closed
RecvCounts(max) ==
    IF s2c # <<>> THEN 1..(IF Len(s2c) < max THEN Len(s2c) ELSE max)
    ELSE IF sPc = "closed" THEN {0}
    ELSE {}

\* socks5_connect from the greeting response to the second recv
ClientRequest(n) ==
    /\ cPc = "greeting_sent"
    /\ n \in RecvCounts(2)
    /\ s2c' = SubSeq(s2c, n + 1, Len(s2c))
    /\ LET buf  == SubSeq(s2c, 1, n)
           req  == Socks5Request(cDest)
           call == [cCall EXCEPT !.greeting = buf]
       IN  IF n # 2
           THEN /\ cPc' = "failed"
                /\ cCall' = SetFlags(call, FALSE)
                /\ c2s' = c2s
           ELSE IF buf[1] # 5 \/ buf[2] # 0
           THEN /\ cPc' = "failed"
                /\ cCall' = SetFlags([call EXCEPT !.errno = "ECONNREFUSED"], FALSE)
                /\ c2s' = c2s
           ELSE IF req = <<>>
           THEN /\ cPc' = "failed"
                /\ cCall' = SetFlags([call EXCEPT !.errno = "EAFNOSUPPORT"], FALSE)
                /\ c2s' = c2s
           ELSE /\ cPc' = "request_sent"
                /\ cCall' = call
                /\ c2s' = IF sPc = "closed" THEN c2s ELSE c2s \o req
    /\ UNCHANGED <<splice, cSock, cDest, sPc, dials, sLog, nSess, config, emVars,
                   shimVars, polVars, extVars>>

\* handleConnection: the second Read returns n bytes; the request is parsed,
\* the target dialled through the mesh node and the reply written
ServerRequest(n, dialOk) ==
    /\ sPc = "request"
    /\ n \in 1..Len(c2s)
    /\ \E r \in {ParseRequest(SubSeq(c2s, 1, n), dialOk)} :
           /\ dials' = IF r.dial THEN Append(dials, r.target) ELSE dials
           /\ s2c' = s2c \o r.reply
           /\ sPc' = IF r.dial /\ dialOk THEN "splice" ELSE "closed"
           /\ c2s' = IF r.dial /\ dialOk THEN SubSeq(c2s, n + 1, Len(c2s)) ELSE <<>>
           /\ sLog' = sLog
                  \o <<Event("read", SubSeq(c2s, 1, n), TRUE)>>
                  \o (IF r.dial THEN <<Event("dial", r.target, dialOk)>> ELSE <<>>)
                  \o (IF r.reply # <<>> THEN <<Event("write", r.reply, TRUE)>> ELSE <<>>)
                  \o (IF r.dial /\ dialOk THEN <<>> ELSE <<Event("close", <<>>, TRUE)>>)
    /\ UNCHANGED <<splice, cSock, cDest, cPc, cCall, nSess, config, emVars, shimVars,
                   polVars, extVars>>

\* socks5_connect from the connect response on; connect() returns
ClientReply(n) ==
    /\ cPc = "request_sent"
    /\ n \in RecvCounts(512)
    /\ s2c' = SubSeq(s2c, n + 1, Len(s2c))
    /\ LET buf  == SubSeq(s2c, 1, n)
           call == [cCall EXCEPT !.reply = buf]
       IN  IF n < 7
           THEN /\ cPc' = "failed"
                /\ cCall' = SetFlags(call, FALSE)
           ELSE IF buf[1] # 5 \/ buf[2] # 0
           THEN /\ cPc' = "failed"
                /\ cCall' = SetFlags([call EXCEPT !.errno = "ECONNREFUSED"], FALSE)
           ELSE /\ cPc' = "connected"
                /\ cCall' = SetFlags(call, FALSE)
    /\ UNCHANGED <<splice, cSock, cDest, c2s, sPc, dials, sLog, nSess, config, emVars,
                   shimVars, polVars, extVars>>

\* the application writes a byte to its connected socket
AppSend ==
    /\ cPc = "connected"
    /\ cCall.sent < MaxPayload
    /\ cCall' = [cCall EXCEPT !.sent = @ + 1]
    /\ c2s' = c2s \o <<PayloadByte>>
    /\ UNCHANGED <<splice, cSock, cDest, cPc, s2c, sPc, dials, sLog, nSess,
                   config, emVars, shimVars, polVars, extVars>>

\* io.Copy(remoteConn, clientConn): n bytes read from the client are written
\* to the remote connection; the write fails when the remote end has closed
CopyUp(n) ==
    /\ sPc = "splice"
    /\ ~splice.upDone
    /\ n \in 1..Len(c2s)
    /\ c2s' = SubSeq(c2s, n + 1, Len(c2s))
    /\ IF splice.remoteClosed
       THEN /\ splice' = [splice EXCEPT !.upDone = TRUE]
            /\ sLog' = sLog
       ELSE /\ splice' = splice
            /\ sLog' = Append(sLog, Event("up", SubSeq(c2s, 1, n), TRUE))
    /\ UNCHANGED <<cSock, cDest, cPc, cCall, s2c, sPc, dials, nSess, config,
                   emVars, shimVars, polVars, extVars>>

\* io.Copy(clientConn, remoteConn): a byte the remote end sent is written to
\* the client; the write fails when the client has closed
CopyDown ==
    /\ sPc = "splice"
    /\ ~splice.downDone
    /\ ~splice.remoteClosed
    /\ Cardinality({i \in 1..Len(sLog) : sLog[i].ev = "down"}) < MaxPayload
    /\ IF splice.clientClosed
       THEN /\ splice' = [splice EXCEPT !.downDone = TRUE]
            /\ UNCHANGED <<s2c, sLog>>
       ELSE /\ splice' = splice
            /\ s2c' = s2c \o <<PayloadByte>>
            /\ sLog' = Append(sLog, Event("down", <<PayloadByte>>, TRUE))
    /\ UNCHANGED <<cSock, cDest, cPc, cCall, c2s, sPc, dials, nSess, config,
                   emVars, shimVars, polVars, extVars>>

\* the client closes its connection to the proxy
ClientClose ==
    /\ sPc = "splice"
    /\ cPc \in {"connected", "foreign"}
    /\ ~splice.clientClosed
    /\ splice' = [splice EXCEPT !.clientClosed = TRUE]
    /\ UNCHANGED <<cSock, cDest, cPc, cCall, c2s, s2c, sPc, dials, sLog, nSess,
                   config, emVars, shimVars, polVars, extVars>>

\* the remote end closes the dialled connection
RemoteClose ==
    /\ sPc = "splice"
    /\ ~splice.remoteClosed
    /\ splice' = [splice EXCEPT !.remoteClosed = TRUE]
    /\ UNCHANGED <<cSock, cDest, cPc, cCall, c2s, s2c, sPc, dials, sLog, nSess,
                   config, emVars, shimVars, polVars, extVars>>

\* io.Copy returns at the end of the stream it reads: the client's, once the
\* client has closed and its bytes are read (up = TRUE), or the remote end's
CopyEnds(up) ==
    /\ sPc = "splice"
    /\ IF up
       THEN ~splice.upDone /\ splice.clientClosed /\ c2s = <<>>
       ELSE ~splice.downDone /\ splice.remoteClosed
    /\ splice' = IF up THEN [splice EXCEPT !.upDone = TRUE]
                       ELSE [splice EXCEPT !.downDone = TRUE]
    /\ UNCHANGED <<cSock, cDest, cPc, cCall, c2s, s2c, sPc, dials, sLog, nSess,
                   config, emVars, shimVars, polVars, extVars>>

\* wg.Wait() returns when both goroutines are done; the deferred Close calls
\* close the remote and the client connection and handleConnection returns
HandlerReturns ==
    /\ sPc = "splice"
    /\ splice.upDone
    /\ splice.downDone
    /\ sPc' = "closed"
    /\ sLog' = Append(sLog, Event("close", <<>>, TRUE))
    /\ UNCHANGED <<splice, cSock, cDest, cPc, cCall, c2s, s2c, dials, nSess,
                   config, emVars, shimVars, polVars, extVars>>

-----------------------------------------------------------------------------
(* The supervisor process: main (main.go), ProxyServer.StartWithReady       *)
(* (proxy.go) in its goroutine, the signal goroutine, and the goroutine     *)
(* that closes the SOCKS5 listener when the root context is cancelled.      *)

MaxSignals == 2       \* interrupt signals sent over a run

MaxAccepts == 1       \* connections accepted over a run

\* the process runs: main has neither returned nor called log.Fatalf
Alive == mPc \notin {"exit", "fatal"}

\* StartWithReady that opens the listener without applying the exit node
AfterAuthSkipExitNode(exitNode) == "listen"

\* StartWithReady after waitForAuth: if p.config.ExitNode != "" { ... }
AfterAuth(exitNode) == IF exitNode THEN "exitnode" ELSE "listen"

\* the closer goroutine that returns without closing
ListenerLeftOpen(l) == l

\* listener.Close()
ListenerClosed(l) == IF l = "open" THEN "closed" ELSE l

\* the process ends: the kernel closes its sockets, its goroutines are gone
ProcessEnds(pc) ==
    /\ mPc' = pc
    /\ listener' = IF listener = "open" THEN "closed" ELSE listener
    /\ pPc' = IF pPc \in {"idle", "failed", "returned"} THEN pPc ELSE "exited"

\* main: proxy, err := NewProxyServer(config); go StartWithReady
MainNew(ok) ==
    /\ mPc = "new"
    /\ IF ok
       THEN /\ mPc' = "select"
            /\ pPc' = "init"
            /\ UNCHANGED listener
       ELSE ProcessEnds("fatal")
    /\ UNCHANGED <<mainIn, sigPc, closerPc, sigChan, proxyChan, ctxDone,
                   readyClosed, mesh, child, nSignals, nAccepted>>
    /\ UNCHANGED <<config, emVars, shimVars, polVars, socksVars, ctlVars, cfgVars, unitVars>>

\* StartWithReady returns err: proxyChan <- err
ProxyReturns(err) ==
    /\ pPc' = IF err = "startup" THEN "failed" ELSE "returned"
    /\ proxyChan' = err

\* p.server.LocalClient()
ProxyLocalClient(ok) ==
    /\ Alive
    /\ pPc = "init"
    /\ IF ok THEN pPc' = "auth" /\ UNCHANGED proxyChan
             ELSE ProxyReturns("startup")
    /\ UNCHANGED <<mainIn, mPc, sigPc, closerPc, sigChan, ctxDone, listener,
                   readyClosed, mesh, child, nSignals, nAccepted>>
    /\ UNCHANGED <<config, emVars, shimVars, polVars, socksVars, ctlVars, cfgVars, unitVars>>

\* p.waitForAuth(ctx, lc): nil once the backend runs, an error otherwise
ProxyWaitForAuth(ok) ==
    /\ Alive
    /\ pPc = "auth"
    /\ IF ok
       THEN /\ pPc' = AfterAuth(mainIn.exitNode)
            /\ mesh' = [mesh EXCEPT !.up = TRUE]
            /\ UNCHANGED proxyChan
       ELSE /\ ProxyReturns("startup")
            /\ UNCHANGED mesh
    /\ UNCHANGED <<mainIn, mPc, sigPc, closerPc, sigChan, ctxDone, listener,
                   readyClosed, child, nSignals, nAccepted>>
    /\ UNCHANGED <<config, emVars, shimVars, polVars, socksVars, ctlVars, cfgVars, unitVars>>

\* the exit node block: lc.Status, the search of the peers, lc.EditPrefs
ProxyExitNode(statusOk, found, editOk) ==
    /\ Alive
    /\ pPc = "exitnode"
    /\ IF statusOk /\ found /\ editOk
       THEN /\ pPc' = "listen"
            /\ mesh' = [mesh EXCEPT !.exitApplied = TRUE]
            /\ UNCHANGED proxyChan
       ELSE /\ ProxyReturns("startup")
            /\ UNCHANGED mesh
    /\ UNCHANGED <<mainIn, mPc, sigPc, closerPc, sigChan, ctxDone, listener,
                   readyClosed, child, nSignals, nAccepted>>
    /\ UNCHANGED <<config, emVars, shimVars, polVars, socksVars, ctlVars, cfgVars, unitVars>>

\* net.Listen("tcp", "127.0.0.1:port") and the start of the closer goroutine
ProxyListen(ok) ==
    /\ Alive
    /\ pPc = "listen"
    /\ IF ok
       THEN /\ pPc' = "ready"
            /\ listener' = "open"
            /\ closerPc' = "waiting"
            /\ UNCHANGED proxyChan
       ELSE /\ ProxyReturns("startup")
            /\ UNCHANGED <<listener, closerPc>>
    /\ UNCHANGED <<mainIn, mPc, sigPc, sigChan, ctxDone, readyClosed, mesh, child,
                   nSignals, nAccepted>>
    /\ UNCHANGED <<config, emVars, shimVars, polVars, socksVars, ctlVars, cfgVars, unitVars>>

\* if ready != nil { close(ready) }
ProxyReady ==
    /\ Alive
    /\ pPc = "ready"
    /\ pPc' = "accept"
    /\ readyClosed' = readyClosed + 1
    /\ UNCHANGED <<mainIn, mPc, sigPc, closerPc, sigChan, proxyChan, ctxDone,
                   listener, mesh, child, nSignals, nAccepted>>
    /\ UNCHANGED <<config, emVars, shimVars, polVars, socksVars, ctlVars, cfgVars, unitVars>>

\* the accept loop: a connection is accepted and handed to handleConnection
ProxyAccept ==
    /\ Alive
    /\ pPc = "accept"
    /\ listener = "open"
    /\ nAccepted < MaxAccepts
    /\ nAccepted' = nAccepted + 1
    /\ UNCHANGED <<mainIn, mPc, pPc, sigPc, closerPc, sigChan, proxyChan, ctxDone,
                   listener, readyClosed, mesh, child, nSignals>>
    /\ UNCHANGED <<config, emVars, shimVars, polVars, socksVars, ctlVars, cfgVars, unitVars>>

\* the accept loop: Accept fails on the closed listener and ctx.Err() != nil
ProxyAcceptFails ==
    /\ Alive
    /\ pPc = "accept"
    /\ listener = "closed"
    /\ ctxDone
    /\ ProxyReturns("canceled")
    /\ UNCHANGED <<mainIn, mPc, sigPc, closerPc, sigChan, ctxDone, listener,
                   readyClosed, mesh, child, nSignals, nAccepted>>
    /\ UNCHANGED <<config, emVars, shimVars, polVars, socksVars, ctlVars, cfgVars, unitVars>>

\* go func() { <-ctx.Done(); listener.Close() }()
CloserRuns ==
    /\ Alive
    /\ closerPc = "waiting"
    /\ ctxDone
    /\ closerPc' = "done"
    /\ listener' = ListenerClosed(listener)
    /\ UNCHANGED <<mainIn, mPc, pPc, sigPc, sigChan, proxyChan, ctxDone,
                   readyClosed, mesh, child, nSignals, nAccepted>>
    /\ UNCHANGED <<config, emVars, shimVars, polVars, socksVars, ctlVars, cfgVars, unitVars>>

\* an interrupt signal arrives: signal.Notify's channel holds one, more are
\* dropped
SignalArrives ==
    /\ Alive
    /\ nSignals < MaxSignals
    /\ nSignals' = nSignals + 1
    /\ sigChan' = 1
    /\ UNCHANGED <<mainIn, mPc, pPc, sigPc, closerPc, proxyChan, ctxDone, listener,
                   readyClosed, mesh, child, nAccepted>>
    /\ UNCHANGED <<config, emVars, shimVars, polVars, socksVars, ctlVars, cfgVars, unitVars>>

\* go func() { <-sigChan; cancel() }()
SignalGoroutine ==
    /\ Alive
    /\ sigPc = "waiting"
    /\ sigChan = 1
    /\ sigChan' = 0
    /\ sigPc' = "done"
    /\ ctxDone' = TRUE
    /\ UNCHANGED <<mainIn, mPc, pPc, closerPc, proxyChan, listener, readyClosed,
                   mesh, child, nSignals, nAccepted>>
    /\ UNCHANGED <<config, emVars, shimVars, polVars, socksVars, ctlVars, cfgVars, unitVars>>

\* main: select { case err := <-proxyChan: log.Fatalf; case <-readyChan: }
MainSelect(fromProxyChan) ==
    /\ mPc = "select"
    /\ IF fromProxyChan
       THEN /\ proxyChan # "empty"
            /\ proxyChan' = "empty"
            /\ ProcessEnds("fatal")
       ELSE /\ readyClosed > 0
            /\ mPc' = IF mainIn.proxyOnly THEN "wait_sig" ELSE "child"
            /\ UNCHANGED <<proxyChan, listener, pPc>>
    /\ UNCHANGED <<mainIn, sigPc, closerPc, sigChan, ctxDone, readyClosed, mesh,
                   child, nSignals, nAccepted>>
    /\ UNCHANGED <<config, emVars, shimVars, polVars, socksVars, ctlVars, cfgVars, unitVars>>

\* main, proxy-only: <-sigChan; cancel()
MainWaitsForSignal ==
    /\ mPc = "wait_sig"
    /\ sigChan = 1
    /\ sigChan' = 0
    /\ ctxDone' = TRUE
    /\ mPc' = "wait_proxy"
    /\ UNCHANGED <<mainIn, pPc, sigPc, closerPc, proxyChan, listener, readyClosed,
                   mesh, child, nSignals, nAccepted>>
    /\ UNCHANGED <<config, emVars, shimVars, polVars, socksVars, ctlVars, cfgVars, unitVars>>

\* main, command mode: the preload library is looked up and cmd.Run() starts
\* the command, unless the context is already cancelled
MainRunsChild(libFound) ==
    /\ mPc = "child"
    /\ child = "none"
    /\ IF ~libFound
       THEN /\ ProcessEnds("fatal")
            /\ UNCHANGED child
       ELSE /\ child' = IF ctxDone THEN child ELSE "running"
            /\ mPc' = IF ctxDone THEN "after_child" ELSE "child"
            /\ UNCHANGED <<listener, pPc>>
    /\ UNCHANGED <<mainIn, sigPc, closerPc, sigChan, proxyChan, ctxDone,
                   readyClosed, mesh, nSignals, nAccepted>>
    /\ UNCHANGED <<config, emVars, shimVars, polVars, socksVars, ctlVars, cfgVars, unitVars>>

\* the command exits (by itself, or killed when the context is cancelled) and
\* cmd.Run() returns
ChildExits ==
    /\ mPc = "child"
    /\ child = "running"
    /\ child' = "exited"
    /\ mPc' = "after_child"
    /\ UNCHANGED <<mainIn, pPc, sigPc, closerPc, sigChan, proxyChan, ctxDone,
                   listener, readyClosed, mesh, nSignals, nAccepted>>
    /\ UNCHANGED <<config, emVars, shimVars, polVars, socksVars, ctlVars, cfgVars, unitVars>>

\* main, command mode: cancel() after cmd.Run()
MainCancels ==
    /\ mPc = "after_child"
    /\ ctxDone' = TRUE
    /\ mPc' = "wait_proxy"
    /\ UNCHANGED <<mainIn, pPc, sigPc, closerPc, sigChan, proxyChan, listener,
                   readyClosed, mesh, child, nSignals, nAccepted>>
    /\ UNCHANGED <<config, emVars, shimVars, polVars, socksVars, ctlVars, cfgVars, unitVars>>

\* main: select { case err := <-proxyChan: ; case <-time.After(2 * time.Second): }
\* and the return of main
MainWaitsForProxy(fromProxyChan) ==
    /\ mPc = "wait_proxy"
    /\ fromProxyChan => proxyChan # "empty"
    /\ proxyChan' = IF fromProxyChan THEN "empty" ELSE proxyChan
    /\ ProcessEnds("exit")
    /\ UNCHANGED <<mainIn, sigPc, closerPc, sigChan, ctxDone, readyClosed, mesh,
                   child, nSignals, nAccepted>>
    /\ UNCHANGED <<config, emVars, shimVars, polVars, socksVars, ctlVars, cfgVars, unitVars>>

-----------------------------------------------------------------------------
(* The configuration main builds from the flags and the config file         *)
(* (main.go, config.go).  A flag that was not given, and a key the file     *)
(* does not hold, is Unset; one that is there is Given(v).                   *)

Unset == <<>>

Given(v) == <<v>>

\* the options main.go declares a flag for, with the flag's default
FlagDefaults ==
    [ExitNode |-> "", Hostname |-> "tailproxy", AuthKey |-> "",
     ProxyPort |-> 1080, Verbose |-> FALSE]

\* the fields of Config with Go's zero values
ZeroConfig ==
    [ExitNode |-> "", Hostname |-> "", AuthKey |-> "", ProxyPort |-> 0,
     Verbose |-> FALSE, ExportMax |-> 0]

\* flag.Parse: the value of a flag variable
FlagValue(flags, opt) ==
    IF flags[opt] = Unset THEN FlagDefaults[opt] ELSE flags[opt][1]

\* json.Unmarshal into a zero Config: the keys present overwrite the fields
Unmarshal(file) ==
    [f \in DOMAIN ZeroConfig |->
        IF file[f] = Unset THEN ZeroConfig[f] ELSE file[f][1]]

\* LoadConfig: Unmarshal, then the defaults for the empty fields
LoadConfig(file) ==
    LET c == Unmarshal(file) IN
    [c EXCEPT !.Hostname  = IF c.Hostname = "" THEN "tailproxy" ELSE c.Hostname,
              !.ProxyPort = IF c.ProxyPort = 0 THEN 1080 ELSE c.ProxyPort,
              !.ExportMax = IF c.ExportMax = 0 THEN 32 ELSE c.ExportMax]

\* main: the Config from the file if -config was given, from the flags
\* otherwise; then the overrides by the flags that differ from their defaults
MainConfig(in) ==
    LET fv(opt) == FlagValue(in.flags, opt)
        base == IF in.file # Unset
                THEN LoadConfig(in.file[1])
                ELSE [ZeroConfig EXCEPT !.ExitNode = fv("ExitNode"),
                                        !.Hostname = fv("Hostname"),
                                        !.AuthKey = fv("AuthKey"),
                                        !.ProxyPort = fv("ProxyPort"),
                                        !.Verbose = fv("Verbose")]
    IN  [base EXCEPT
            !.ExitNode = IF fv("ExitNode") # "" THEN fv("ExitNode") ELSE @,
            !.Hostname = IF fv("Hostname") # "tailproxy" THEN fv("Hostname") ELSE @,
            !.AuthKey  = IF fv("AuthKey") # "" THEN fv("AuthKey") ELSE @]

\* main up to NewProxyServer: flag.Parse and the construction of the Config
BuildConfig ==
    /\ cfgPc = "start"
    /\ cfgOut' = MainConfig(cfgIn)
    /\ cfgPc' = "done"
    /\ UNCHANGED cfgIn
    /\ UNCHANGED <<config, emVars, shimVars, polVars, socksVars, mainVars, ctlVars, unitVars>>

-----------------------------------------------------------------------------
(* The parts of the state a specification leaves alone                     *)

EmIdle ==
    /\ exporters = {}
    /\ listeners = <<>>
    /\ emPc = "run"
    /\ emLog = "none"
    /\ nListen = [p \in Ports |-> 0]
    /\ nClose = [p \in Ports |-> 0]
    /\ lateListen = [p \in Ports |-> FALSE]

ShimIdle ==
    /\ export_enabled = FALSE
    /\ control_socket = ""
    /\ control_fd = -1
    /\ fd_table = [fd \in Fds |-> ZeroEntry]
    /\ sock = [fd \in Fds |-> ClosedSock]
    /\ supListening = FALSE
    /\ ctrlInbox = <<>>
    /\ nCalls = 0
    /\ lastCall = NoCall
    /\ ctlOpen = [failed |-> FALSE, retried |-> FALSE]
    /\ sent = [fd \in Fds |-> NoneSent]

PolIdle ==
    /\ polAllow = <<>>
    /\ polDeny = <<>>
    /\ polPort = 0
    /\ polResult = "unset"

MainIdle ==
    /\ mainIn = [proxyOnly |-> TRUE, exitNode |-> FALSE]
    /\ mPc = "new"
    /\ pPc = "idle"
    /\ sigPc = "waiting"
    /\ closerPc = "none"
    /\ sigChan = 0
    /\ proxyChan = "empty"
    /\ ctxDone = FALSE
    /\ listener = "none"
    /\ readyClosed = 0
    /\ mesh = [up |-> FALSE, exitApplied |-> FALSE]
    /\ child = "none"
    /\ nSignals = 0
    /\ nAccepted = 0

CtlIdle ==
    /\ ctlPc = "check"
    /\ ctlListener = "open"
    /\ ctlConn = "none"
    /\ ctlIn = <<>>
    /\ nScanned = 0
    /\ nConns = 0

CfgIdle ==
    /\ cfgIn = <<>>
    /\ cfgOut = <<>>
    /\ cfgPc = "start"

MaxOwners == 3        \* listeners the children open over a run

Owners == 1..MaxOwners

OwnersIdle == owner = [l \in Owners |-> [st |-> "none", port |-> 0, counted |-> FALSE]]

DomainIdle ==
    dom = [pc |-> "none", len |-> 0, port |-> 0,
           res |-> [dial |-> FALSE, target |-> <<>>, reply |-> <<>>]]

InitIdle == ini = <<>>

ThreadsIdle == thr = <<>>

LoopIdle == loop = <<>>

ForwardIdle == fwd = <<>>

UnitIdle ==
    /\ OwnersIdle
    /\ DomainIdle
    /\ InitIdle
    /\ ThreadsIdle
    /\ LoopIdle
    /\ ForwardIdle

ExtIdle == MainIdle /\ CtlIdle /\ CfgIdle /\ UnitIdle

ConfigIdle ==
    config = [ExportAllowPorts |-> <<>>, ExportDenyPorts |-> <<>>, ExportMax |-> 1]

SocksIdle ==
    /\ cSock = ClosedSock
    /\ cDest = NoDest
    /\ cPc = "idle"
    /\ c2s = <<>>
    /\ s2c = <<>>
    /\ sPc = "none"
    /\ dials = <<>>
    /\ sLog = <<>>
    /\ splice = NoSplice
    /\ cCall = ConnectCall(FALSE)
    /\ nSess = 0

-----------------------------------------------------------------------------
(* Specification of the port policy as a pure function                     *)

InitPolicy ==
    /\ polAllow \in PolicySpecs
    /\ polDeny \in PolicySpecs
    /\ \E spaced \in BOOLEAN :
           config = [ExportAllowPorts |-> RenderSpec(polAllow, spaced),
                     ExportDenyPorts  |-> RenderSpec(polDeny, spaced),
                     ExportMax        |-> 1]
    /\ polPort \in PolicyPorts
    /\ polResult = "unset"
    /\ EmIdle
    /\ ExtIdle
    /\ ShimIdle
    /\ SocksIdle

PolicyCheck ==
    /\ polResult = "unset"
    /\ polResult' = IF isPortAllowed(polPort) THEN "accept" ELSE "reject"
    /\ UNCHANGED <<config, polAllow, polDeny, polPort, emVars, shimVars,
                   socksVars, extVars>>

NextPolicy == PolicyCheck

SpecPolicy == InitPolicy /\ [][NextPolicy]_vars

-----------------------------------------------------------------------------
(* Specification of the export manager                                     *)

\* the policies and caps the runs are configured with
EmPolicies ==
    {<< <<>>, <<>> >>,
     << <<RangeTok(80, 82)>>, <<SingleTok(81)>> >>}

Init ==
    /\ \E pol \in EmPolicies, max \in 1..MaxExportMax :
           config = [ExportAllowPorts |-> RenderSpec(pol[1], FALSE),
                     ExportDenyPorts  |-> RenderSpec(pol[2], FALSE),
                     ExportMax        |-> max]
    /\ EmIdle
    /\ ExtIdle
    /\ ShimIdle
    /\ PolIdle
    /\ SocksIdle

Next ==
    \/ \E raw \in CtlLines, ok \in BOOLEAN : HandleControlLine(raw, ok)
    \/ StopCancel
    \/ StopExporters

Spec == Init /\ [][Next]_vars

-----------------------------------------------------------------------------
(* Specification of the shim in the child                                  *)

InitShim ==
    /\ export_enabled \in BOOLEAN
    /\ control_socket \in (IF export_enabled THEN {"", "sock"} ELSE {""})
    /\ control_fd = -1
    /\ fd_table = [fd \in Fds |-> ZeroEntry]
    /\ sock = [fd \in Fds |-> ClosedSock]
    /\ supListening \in BOOLEAN
    /\ ctrlInbox = <<>>
    /\ nCalls = 0
    /\ lastCall = NoCall
    /\ ctlOpen = [failed |-> FALSE, retried |-> FALSE]
    /\ sent = [fd \in Fds |-> NoneSent]
    /\ ConfigIdle
    /\ EmIdle
    /\ ExtIdle
    /\ PolIdle
    /\ SocksIdle

\* the sockets the application creates: <<domain, type>>
SocketKinds ==
    {<<"inet", "stream">>, <<"inet6", "stream">>, <<"unix", "stream">>,
     <<"inet", "dgram">>}

NextShim ==
    \/ \E fd \in Fds, kind \in SocketKinds : AppSocket(fd, kind[1], kind[2])
    \/ \E fd \in Fds, addr \in BindAddrs, ok \in BOOLEAN : Bind(fd, addr, ok)
    \/ \E fd \in Fds, ok \in BOOLEAN : Listen(fd, ok)
    \/ \E fd \in Fds : Close(fd)

SpecShim == InitShim /\ [][NextShim]_vars

-----------------------------------------------------------------------------
(* Specification of the SOCKS5 path: the child's connect() against the      *)
(* supervisor's handleConnection                                            *)

Wan4 == <<203, 0, 113, 9>>

\* ::ffff:203.0.113.9
Mapped6 == V4InV6Prefix \o Wan4

\* 2001:0:0:1:0:0:1:1, two runs of zero groups of the same length
TwoRuns6 == <<32, 1, 0, 0, 0, 0, 0, 1, 0, 0, 0, 0, 0, 1, 0, 1>>

\* 2001:db8:0:1::, a single zero group and a run of zero groups at the end
Net6 == <<32, 1, 13, 184, 0, 0, 0, 1, 0, 0, 0, 0, 0, 0, 0, 0>>

ConnectPorts == {80, 65535}

\* the destinations the application connects to
ConnectDests ==
    {SockAddr("AF_INET", a, 443) : a \in {Lo4, Lan4, Wan4}}
    \cup {SockAddr("AF_INET6", a, 443) : a \in {Lo6, Lan6, Mapped6, TwoRuns6, Net6}}
    \cup {SockAddr("AF_INET", Wan4, p) : p \in ConnectPorts}
    \cup {SockAddr("AF_INET6", Net6, p) : p \in ConnectPorts}
    \cup {ControlAddr}

\* the connects the application makes: (domain, type, destination). Every
\* destination on an IPv4 stream socket; IPv6 and IPv4 destinations on an IPv6
\* stream socket; a Unix stream and a Unix datagram socket to a socket path;
\* an IPv4 datagram socket
ConnectCases ==
    {<<"inet", "stream", d>> : d \in ConnectDests}
    \cup {<<"inet6", "stream", SockAddr("AF_INET6", a, 443)>> : a \in {Lo6, Net6}}
    \cup {<<"inet6", "stream", SockAddr("AF_INET", Lo4, 443)>>,
          <<"unix", "stream", ControlAddr>>,
          <<"unix", "dgram", ControlAddr>>,
          <<"inet", "dgram", SockAddr("AF_INET", Wan4, 443)>>,
          <<"inet", "dgram", SockAddr("AF_INET", Lo4, 443)>>}

\* what another program sends first: a SOCKS5 greeting, a SOCKS4 request, one
\* byte, the start of an HTTP request
ForeignGreetings == {<<5, 1, 0>>, <<4, 1, 0>>, <<5>>, <<71, 69, 84>>}

\* what it sends next: BIND and UDP ASSOCIATE requests, CONNECT requests with
\* an address type the server does not know (with and without an address
\* field), a CONNECT to a.b port 80 followed by a payload byte, a SOCKS4
\* request
ForeignRequests ==
    {<<5, 2, 0, 1>> \o Wan4 \o <<0, 80>>,
     <<5, 3, 0, 9>> \o Wan4 \o <<0, 80>>,
     <<5, 1, 0, 9>> \o Wan4 \o <<0, 80>>,
     <<5, 1, 0, 9, 0, 80>>,
     <<5, 1, 0, 3, 3, 97, 46, 98, 0, 80, PayloadByte>>,
     <<4, 1, 0, 80>> \o Wan4 \o <<0>>}

\* the longest read the streams of the model can serve
MaxRead == 22

InitSocks ==
    /\ SocksIdle
    /\ ConfigIdle
    /\ EmIdle
    /\ ExtIdle
    /\ ShimIdle
    /\ PolIdle

NextSocks ==
    \/ \E c \in ConnectCases, was_nonblocking \in BOOLEAN, proxy \in ProxyOutcomes :
           Connect(c[1], c[2], c[3], was_nonblocking, proxy)
    \/ \E first \in ForeignGreetings : ForeignConnect(first)
    \/ \E req \in ForeignRequests : ForeignSend(req)
    \/ \E n \in 1..MaxRead : ServerGreeting(n)
    \/ \E n \in 0..2 : ClientRequest(n)
    \/ \E n \in 1..MaxRead, dialOk \in BOOLEAN : ServerRequest(n, dialOk)
    \/ \E n \in 0..MaxRead : ClientReply(n)
    \/ AppSend
    \/ \E n \in 1..MaxRead : CopyUp(n)
    \/ CopyDown
    \/ ClientClose
    \/ RemoteClose
    \/ \E up \in BOOLEAN : CopyEnds(up)
    \/ HandlerReturns

\* the steps of handleConnection and of its two copy goroutines
ServerStep ==
    \/ \E n \in 1..MaxRead : ServerGreeting(n)
    \/ \E n \in 1..MaxRead, dialOk \in BOOLEAN : ServerRequest(n, dialOk)
    \/ \E n \in 1..MaxRead : CopyUp(n)
    \/ \E up \in BOOLEAN : CopyEnds(up)
    \/ HandlerReturns

SpecSocks == InitSocks /\ [][NextSocks]_vars

\* the goroutines of a session are scheduled; the client and the remote end
\* are under no obligation
SpecSocksFair == SpecSocks /\ WF_vars(ServerStep)

-----------------------------------------------------------------------------
(* The control socket of the export manager (SpecControl)                   *)

InitControl ==
    /\ \E pol \in EmPolicies, max \in 1..MaxExportMax :
           config = [ExportAllowPorts |-> RenderSpec(pol[1], FALSE),
                     ExportDenyPorts  |-> RenderSpec(pol[2], FALSE),
                     ExportMax        |-> max]
    /\ EmIdle
    /\ CtlIdle
    /\ MainIdle
    /\ CfgIdle
    /\ UnitIdle
    /\ ShimIdle
    /\ PolIdle
    /\ SocksIdle

\* the steps of handleControlConnection
ControlHandlerStep ==
    \/ \E ok \in BOOLEAN : ScanControlLine(ok)
    \/ ControlHandlerReturns

NextControl ==
    \/ CtlAcceptorChecks
    \/ CtlAccept
    \/ \E raw \in CtlInputs : PeerWrites(raw)
    \/ PeerCloses
    \/ ControlHandlerStep
    \/ StopCancel
    \/ StopExporters

SpecControl == InitControl /\ [][NextControl]_vars

\* the acceptor, the connection handler and a Stop call under way are
\* scheduled; peers are under no obligation to connect, write or close
SpecControlFair ==
    /\ SpecControl
    /\ WF_vars(CtlAcceptorChecks)
    /\ WF_vars(ControlHandlerStep)
    /\ WF_vars(StopExporters)

-----------------------------------------------------------------------------
(* The configuration (SpecConfig)                                           *)

\* the flags of a run: Unset, or the value given
FlagInputs ==
    [ExitNode : {Unset, Given("node-a")},
     Hostname : {Unset, Given("tailproxy"), Given("host-a")},
     AuthKey : {Unset, Given("key-a")},
     ProxyPort : {Unset, Given(1080), Given(9050)},
     Verbose : {Unset, Given(TRUE), Given(FALSE)}]

\* the config file of a run: Unset (no -config), or its keys
FileInputs ==
    {Unset} \cup
    {Given(f) : f \in [ExitNode : {Unset, Given("node-b")},
                       Hostname : {Unset, Given("host-b")},
                       AuthKey : {Unset, Given("key-b")},
                       ProxyPort : {Unset, Given(8080)},
                       Verbose : {Unset, Given(TRUE)},
                       ExportMax : {Unset, Given(5)}]}

InitConfig ==
    /\ cfgIn \in [flags : FlagInputs, file : FileInputs]
    /\ cfgOut = <<>>
    /\ cfgPc = "start"
    /\ ConfigIdle
    /\ UnitIdle
    /\ EmIdle
    /\ MainIdle
    /\ CtlIdle
    /\ ShimIdle
    /\ PolIdle
    /\ SocksIdle

NextConfig == BuildConfig

SpecConfig == InitConfig /\ [][NextConfig]_vars

-----------------------------------------------------------------------------
(* The supervisor process (SpecMain)                                        *)

InitMain ==
    /\ mainIn \in [proxyOnly : BOOLEAN, exitNode : BOOLEAN]
    /\ mPc = "new"
    /\ pPc = "idle"
    /\ sigPc = "waiting"
    /\ closerPc = "none"
    /\ sigChan = 0
    /\ proxyChan = "empty"
    /\ ctxDone = FALSE
    /\ listener = "none"
    /\ readyClosed = 0
    /\ mesh = [up |-> FALSE, exitApplied |-> FALSE]
    /\ child = "none"
    /\ nSignals = 0
    /\ nAccepted = 0
    /\ CtlIdle
    /\ CfgIdle
    /\ UnitIdle
    /\ ConfigIdle
    /\ EmIdle
    /\ ShimIdle
    /\ PolIdle
    /\ SocksIdle

\* the steps of main
MainStep ==
    \/ \E ok \in BOOLEAN : MainNew(ok)
    \/ \E fromProxyChan \in BOOLEAN : MainSelect(fromProxyChan)
    \/ MainWaitsForSignal
    \/ \E libFound \in BOOLEAN : MainRunsChild(libFound)
    \/ MainCancels
    \/ \E fromProxyChan \in BOOLEAN : MainWaitsForProxy(fromProxyChan)

\* the steps of the StartWithReady goroutine
ProxyStep ==
    \/ \E ok \in BOOLEAN : ProxyLocalClient(ok)
    \/ \E ok \in BOOLEAN : ProxyWaitForAuth(ok)
    \/ \E statusOk, found, editOk \in BOOLEAN : ProxyExitNode(statusOk, found, editOk)
    \/ \E ok \in BOOLEAN : ProxyListen(ok)
    \/ ProxyReady
    \/ ProxyAcceptFails

NextMain ==
    \/ MainStep
    \/ ProxyStep
    \/ ProxyAccept
    \/ CloserRuns
    \/ SignalGoroutine
    \/ SignalArrives
    \/ ChildExits

SpecMain == InitMain /\ [][NextMain]_vars

\* main and the goroutines are scheduled; signals, incoming connections and
\* the end of the command are under no obligation
SpecMainFair ==
    /\ SpecMain
    /\ WF_vars(MainStep)
    /\ WF_vars(ProxyStep)
    /\ WF_vars(CloserRuns)
    /\ WF_vars(SignalGoroutine)

-----------------------------------------------------------------------------
(* Port policy properties (SpecPolicy)                                      *)

\* what the documentation says a token matches
TokMatches(t, p) ==
    \/ t.kind = "single" /\ t.lo = p
    \/ t.kind = "range" /\ t.lo <= p /\ p <= t.hi

SpecMatches(toks, p) == \E i \in 1..Len(toks) : TokMatches(toks[i], p)

\* C7: the decision for a port is: reject if the deny spec matches it,
\* otherwise accept if the allow spec is empty or matches it, otherwise
\* reject; a port matched by both specs is rejected.
C7_PolicyDecision ==
    polResult # "unset" =>
        polResult = (IF SpecMatches(polDeny, polPort) THEN "reject"
                     ELSE IF polAllow = <<>> THEN "accept"
                     ELSE IF SpecMatches(polAllow, polPort) THEN "accept"
                     ELSE "reject")

\* a port matched by both specs has been decided
C7_Witness ==
    /\ polResult = "reject"
    /\ SpecMatches(polDeny, polPort)
    /\ SpecMatches(polAllow, polPort)

-----------------------------------------------------------------------------
(* Properties of the export manager                                        *)

OpenListeners(port) ==
    {lid \in DOMAIN listeners : listeners[lid].port = port /\ listeners[lid].open}

\* the step handles a LISTEN (a CLOSE) line for the port
ListenHandled(port) == nListen'[port] = nListen[port] + 1

CloseHandled(port) == nClose'[port] = nClose[port] + 1

\* C4: the number of entries of the exporter map never exceeds export-max,
\* whatever LISTEN and CLOSE lines arrive and however they interleave.
C4_MapWithinCap == Cardinality(exporters) <= config.ExportMax

\* the map is full and a LISTEN for one more port has just been dropped
C4_Witness ==
    /\ Cardinality(exporters) = config.ExportMax
    /\ emLog = "max reached"

\* C5: every entry of the exporter map has refcount >= 1, and no two
\* entries are for the same port.
C5_RefcountPositive ==
    /\ \A e \in exporters : e.refcount >= 1
    /\ \A e1, e2 \in exporters : e1.port = e2.port => e1 = e2

\* a CLOSE has just lowered a refcount and the entry is still there
C5_Witness ==
    /\ emLog = "refcount down"
    /\ \E e \in exporters : e.refcount >= 1 /\ nClose[e.port] >= 1

\* C6: N >= 1 LISTEN lines for a port followed by N CLOSE lines for it (no
\* LISTEN for the port after its first CLOSE) leave the map without an entry
\* for the port, whatever happened to the LISTENs and to other ports.
C6_ListenCloseBalance ==
    \A p \in Ports :
        (~lateListen[p] /\ nListen[p] >= 1 /\ nClose[p] = nListen[p])
            => ~HasEntry(p)

\* two LISTENs then two CLOSEs for a port that was exported
C6_Witness ==
    \E p \in Ports :
        /\ ~lateListen[p]
        /\ nListen[p] = 2
        /\ nClose[p] = 2
        /\ \E lid \in DOMAIN listeners : listeners[lid].port = p

\* C8: a LISTEN that the policy rejects, or that would add an entry to a map
\* already holding export-max entries, changes neither the map nor the
\* overlay listeners.
C8_RejectedListenIsNoOp ==
    [][\A p \in Ports :
          (/\ ListenHandled(p)
           /\ \/ ~isPortAllowed(p)
              \/ ~HasEntry(p) /\ Cardinality(exporters) >= config.ExportMax)
          => (exporters' = exporters /\ listeners' = listeners)]_vars

\* a LISTEN was rejected by the policy while the map held an entry
C8_Witness ==
    /\ emLog = "not allowed"
    /\ exporters # {}
    /\ \E p \in Ports : ~isPortAllowed(p) /\ nListen[p] >= 1

\* C9: a CLOSE at refcount r > 1 only lowers the refcount and leaves the
\* overlay listener open; a CLOSE at refcount 1 cancels and closes the
\* listener and removes the entry; a LISTEN for an allowed port without an
\* entry, with fewer than export-max current entries and a successful overlay
\* listen, creates an entry with refcount 1 and a listener never used before.
C9_CloseThenFreshListen ==
    [][\A p \in Ports :
          /\ (CloseHandled(p) /\ HasEntry(p) /\ Entry(p).refcount > 1)
                => /\ exporters' = MapPut(exporters,
                                          [Entry(p) EXCEPT !.refcount = @ - 1])
                   /\ listeners' = listeners
          /\ (CloseHandled(p) /\ HasEntry(p) /\ Entry(p).refcount = 1)
                => /\ exporters' = MapDelete(exporters, p)
                   /\ ~listeners'[Entry(p).lid].open
                   /\ listeners'[Entry(p).lid].cancelled
          /\ (/\ ListenHandled(p) /\ emLog' # "listen failed"
              /\ isPortAllowed(p)
              /\ ~HasEntry(p)
              /\ Cardinality(exporters) < config.ExportMax)
                => \E e \in exporters' :
                      /\ e.port = p
                      /\ e.refcount = 1
                      /\ e.lid \notin DOMAIN listeners
                      /\ listeners'[e.lid].open
                      /\ listeners'[e.lid].port = p
                      /\ exporters' = exporters \cup {e}]_vars

\* an entry was removed by its last CLOSE and the freed slot was taken by a
\* new entry, with the map at the cap again
C9_Witness ==
    /\ Cardinality(exporters) = config.ExportMax
    /\ emLog = "exporting"
    /\ \E l1, l2 \in DOMAIN listeners :
          /\ l1 < l2
          /\ ~listeners[l1].open
          /\ listeners[l1].cancelled
          /\ nClose[listeners[l1].port] >= 1
          /\ listeners[l2].open
          /\ \E e \in exporters : e.lid = l2 /\ e.refcount = 1

\* C10: at most one open overlay listener exists for a port at any moment,
\* also across removal and re-creation of the port's entry.
C10_OneOpenListenerPerPort ==
    \A p \in Ports : Cardinality(OpenListeners(p)) <= 1

\* the entry of a port was removed and created again
C10_Witness ==
    \E l1, l2 \in DOMAIN listeners :
        /\ l1 # l2
        /\ listeners[l1].port = listeners[l2].port
        /\ ~listeners[l1].open
        /\ listeners[l2].open

-----------------------------------------------------------------------------
(* Properties of the shim                                                  *)

ListeningTcp(fd) ==
    /\ sock[fd].open
    /\ sock[fd].type = "stream"
    /\ sock[fd].domain \in {"inet", "inet6"}
    /\ sock[fd].listening

\* C1: with export enabled, every TCP socket that is listening is bound to a
\* loopback address (127.0.0.0/8 or ::1), whatever sequence of bind, listen
\* and close calls led there.
C1_ListenersOnLoopback ==
    export_enabled => \A fd \in Fds : ListeningTcp(fd) => IsLoopbackAddr(sock[fd].addr)

\* C2: with export enabled and the supervisor listening on the control
\* socket, once listen has succeeded on a bound TCP socket the LISTEN line
\* for its port has reached the export manager's control connection (the
\* send buffer having room), from where the exporter entry is created.
C2_ListenReachesManager ==
    (export_enabled /\ control_socket # "" /\ supListening) =>
        \A fd \in Fds :
            (/\ ListeningTcp(fd)
             /\ fd_table[fd].is_listener
             /\ fd_table[fd].port > 0
             /\ Len(ctrlInbox) < SendBufCap)
            => \E i \in 1..Len(ctrlInbox), family \in {"tcp4", "tcp6"} :
                   ctrlInbox[i] = CtlLine("LISTEN", family, fd_table[fd].port)


\* C11: in the FD table, every entry whose listener flag is set also has the
\* TCP flag set and a recorded port strictly greater than zero, whatever the
\* type and domain of the sockets the calls were made on.
C11_ListenerHasTcpAndPort ==
    \A fd \in Fds :
        fd_table[fd].is_listener => fd_table[fd].is_tcp /\ fd_table[fd].port > 0

\* the last call was a bind on a TCP socket with an IPv4 or IPv6 address
TcpBindCall ==
    /\ lastCall.op = "bind"
    /\ sock[lastCall.fd].open
    /\ sock[lastCall.fd].type = "stream"
    /\ lastCall.req.family \in {"AF_INET", "AF_INET6"}

\* C12: with export enabled, a bind on a TCP socket with an IPv4 or IPv6
\* address hands the original bind the requested address when that is a
\* loopback address and otherwise the loopback address of the same family
\* (127.0.0.1 or ::1), with the requested port either way; with export
\* disabled the address is handed on unchanged and the FD table stays empty.
C12_BindRewrittenToLoopback ==
    /\ (export_enabled /\ TcpBindCall) =>
           /\ lastCall.passed.family = lastCall.req.family
           /\ lastCall.passed.port = lastCall.req.port
           /\ lastCall.passed.addr =
                  (IF IsLoopbackAddr(lastCall.req.addr) THEN lastCall.req.addr
                   ELSE IF lastCall.req.family = "AF_INET" THEN <<127, 0, 0, 1>>
                   ELSE <<0, 0, 0, 0, 0, 0, 0, 0, 0, 0, 0, 0, 0, 0, 0, 1>>)
    /\ ~export_enabled =>
           /\ lastCall.op = "bind" => lastCall.passed = lastCall.req
           /\ \A fd \in Fds : fd_table[fd] = ZeroEntry

\* a wildcard IPv6 bind on a TCP socket went to ::1 with its port
C12_Witness ==
    /\ export_enabled
    /\ TcpBindCall
    /\ lastCall.req = SockAddr("AF_INET6", Any6, 80)
    /\ lastCall.ret = 0
    /\ sock[lastCall.fd].bound

\* C13: every LISTEN line the shim emits carries the port the socket is bound
\* to when listen succeeded, which is never zero (also after a bind to port
\* 0), and the family token tcp4 for an IPv4 socket, tcp6 for an IPv6 socket.
C13_ListenLineCarriesBoundPort ==
    lastCall.op = "listen" =>
        \A i \in 1..Len(lastCall.msgs) :
            /\ sock[lastCall.fd].listening
            /\ sock[lastCall.fd].port > 0
            /\ sock[lastCall.fd].domain \in {"inet", "inet6"}
            /\ lastCall.msgs[i] =
                   CtlLine("LISTEN",
                           IF sock[lastCall.fd].domain = "inet" THEN "tcp4" ELSE "tcp6",
                           sock[lastCall.fd].port)

\* a LISTEN line for a socket the application bound to port 0
C13_Witness ==
    /\ lastCall.op = "listen"
    /\ Len(lastCall.msgs) = 1
    /\ sock[lastCall.fd].port \in EphemeralPorts

\* the step is a call of a shim on fd that left the other descriptors alone
ShimCallOn(op, fd) ==
    /\ nCalls' = nCalls + 1
    /\ lastCall'.op = op
    /\ lastCall'.fd = fd
    /\ \A other \in Fds \ {fd} : sock'[other] = sock[other]

-----------------------------------------------------------------------------
(* SOCKS5 path properties (SpecSocks)                                       *)

\* the session is one of an intercepted connect to an IP destination that is
\* no loopback address
InterceptedSession ==
    /\ cPc \in {"greeting_sent", "request_sent", "connected", "failed"}
    /\ cDest.family \in {"AF_INET", "AF_INET6"}
    /\ ~IsLoopbackAddr(cDest.addr)

\* C3: for an intercepted connect to a non-loopback IPv4 or IPv6 destination A,
\* port P, the supervisor dials the mesh at most once in the session, exactly
\* once when the client's handshake has completed, and the dialled target
\* reads back as A (as an IP address, an IPv4 address being the same address
\* as its IPv4-mapped form) and P.
C3_OneDialToOriginalDestination ==
    InterceptedSession =>
        /\ Len(dials) <= 1
        /\ cPc = "connected" => Len(dials) = 1
        /\ \A i \in 1..Len(dials) :
               LET d == DialedEndpoint(dials[i]) IN
               /\ d.ok
               /\ d.ip = To16(cDest.addr)
               /\ d.port = cDest.port

\* a completed handshake to 2001:0:0:1:0:0:1:1 port 443: the host text has a
\* "::" in it and the two port bytes differ
C3_Witness ==
    /\ InterceptedSession
    /\ cPc = "connected"
    /\ cDest = SockAddr("AF_INET6", TwoRuns6, 443)
    /\ Len(dials) = 1

\* connect() has returned for the application's socket
ConnectReturned == cPc \in {"direct", "proxy_failed", "connected", "failed"}

\* the call went to the original connect alone: one real_connect with the
\* caller's address, no fcntl(F_SETFL), no connection to the proxy and no
\* byte sent on the socket
DelegatedUntouched ==
    /\ cCall.real = <<cDest>>
    /\ cCall.setfl = 0
    /\ cCall.nonblock = cCall.was_nonblocking
    /\ sPc = "none"
    /\ c2s = <<>>
    /\ sLog = <<>>

\* C14: a connect() on a socket that is no TCP socket (a datagram socket, or a
\* stream socket of a domain other than IPv4 / IPv6, such as a Unix-domain
\* stream socket) is one call of the original connect with the caller's
\* arguments: no flag changed, no connection to the proxy, no SOCKS5 byte.
C14_NonTcpSocketsUntouched ==
    ConnectReturned /\ (cSock.type # "stream" \/ cSock.domain \notin {"inet", "inet6"})
        => DelegatedUntouched

\* C15: a connect() on a TCP socket to a loopback destination (127.0.0.0/8 or
\* ::1) is one call of the original connect with that destination; the proxy
\* is not contacted and the blocking mode is not changed.
C15_LoopbackDestinationsDelegated ==
    /\ ConnectReturned
    /\ cSock.type = "stream"
    /\ cSock.domain \in {"inet", "inet6"}
    /\ cDest.family \in {"AF_INET", "AF_INET6"}
    /\ IsLoopbackAddr(cDest.addr)
    => DelegatedUntouched

\* the positions of the log where ev happened
LogAt(ev) == {i \in 1..Len(sLog) : sLog[i].ev = ev}

\* the request read of the session, when it has happened: the second read
RequestReads == {i \in LogAt("read") : \E j \in LogAt("read") : j < i}

\* the replies to a request: the ten-byte writes
RequestReplies == {i \in LogAt("write") : Len(sLog[i].data) = 10}

\* what the server did from position i on is a reply with code rep, then close
RepliesAndCloses(i, rep) ==
    /\ Len(sLog) = i + 2
    /\ sLog[i + 1] = Event("write", FailureReply(rep), TRUE)
    /\ sLog[i + 2].ev = "close"
    /\ sPc = "closed"

\* C17: for a request with version byte 5, a command other than CONNECT or an
\* address type other than 1, 3, 4 is never dialled; the server replies with
\* code 7 (command) or 8 (address type) and closes.
C17_UnsupportedRequestsRejected ==
    \A i \in RequestReads :
        LET buf == sLog[i].data IN
        /\ buf[1] = 5 /\ Len(buf) >= 2 /\ buf[2] # 1
               => LogAt("dial") = {} /\ RepliesAndCloses(i, 7)
        /\ buf[1] = 5 /\ Len(buf) >= 4 /\ buf[2] = 1 /\ buf[4] \notin {1, 3, 4}
               => LogAt("dial") = {} /\ RepliesAndCloses(i, 8)

\* C18: in a server session the success reply is written only directly after
\* a dial that returned success; a dial that failed is followed by the reply
\* with code 5 and the close; at most one reply to the request is written; no
\* byte is copied to or from the remote connection before the success reply.
C18_SuccessReplyOnlyAfterDial ==
    /\ \A i \in LogAt("write") :
           sLog[i].data = SuccessReply =>
               i > 1 /\ sLog[i - 1].ev = "dial" /\ sLog[i - 1].ok
    /\ \A i \in LogAt("dial") :
           /\ Len(dials) = 1
           /\ ~sLog[i].ok => RepliesAndCloses(i, 5)
           /\ sLog[i].ok => Len(sLog) > i /\ sLog[i + 1] = Event("write", SuccessReply, TRUE)
    /\ Cardinality(RequestReplies) <= 1
    /\ \A i \in LogAt("up") \cup LogAt("down") :
           \E j \in LogAt("write") : j < i /\ sLog[j].data = SuccessReply

\* a session relayed a byte in each direction after its success reply
C18_Witness ==
    /\ LogAt("up") # {}
    /\ LogAt("down") # {}
    /\ Cardinality(RequestReplies) = 1

\* C19: when the first read of a session returns fewer than 2 bytes or a
\* first byte other than 5, the server writes nothing, reads no more, dials
\* nothing and closes the connection.
C19_BadGreetingDropped ==
    sLog # <<>> /\ (Len(sLog[1].data) < 2 \/ sLog[1].data[1] # 5) =>
        /\ sLog = <<Event("read", sLog[1].data, TRUE), Event("close", <<>>, TRUE)>>
        /\ sPc = "closed"
        /\ s2c = <<>>
        /\ dials = <<>>

\* a SOCKS4 request was the first thing read, and the session is closed
C19_Witness ==
    /\ sLog # <<>>
    /\ sLog[1] = Event("read", <<4, 1, 0>>, TRUE)
    /\ sPc = "closed"

\* C20: connect returns 0 only after a greeting response 05 00 and a request
\* reply that begins 05 00; a response or reply with another code makes it
\* fail with errno ECONNREFUSED; when the server ended the negotiation without
\* success, connect failed.
C20_ConnectSucceedsOnlyOnSuccessReply ==
    /\ cPc = "connected" =>
           /\ cCall.greeting = <<5, 0>>
           /\ Len(cCall.reply) >= 2
           /\ SubSeq(cCall.reply, 1, 2) = <<5, 0>>
    /\ cPc = "failed" /\ Len(cCall.greeting) = 2 /\ cCall.greeting # <<5, 0>>
           => cCall.errno = "ECONNREFUSED"
    /\ cPc = "failed" /\ Len(cCall.reply) >= 2 /\ SubSeq(cCall.reply, 1, 2) # <<5, 0>>
           => cCall.errno = "ECONNREFUSED"
    /\ cPc \in {"connected", "failed"} /\ sPc = "closed" => cPc = "failed"

\* C29: the request is sent only after the greeting response 05 00 was
\* received, and when connect returns 0 the bytes taken from the socket are
\* the ten bytes of the server's reply, no fewer and no more, however the
\* stream is cut into reads: what the application reads first is what the
\* destination sent.
C29_ReplyConsumedExactly ==
    /\ cPc \in {"request_sent", "connected"} => cCall.greeting = <<5, 0>>
    /\ cPc = "connected" => cCall.reply = SuccessReply

\* C30: when the intercepted connect has returned, on whichever path,
\* O_NONBLOCK is what it was before the call; during the handshake the socket
\* is blocking.
C30_NonBlockingFlagRestored ==
    /\ ConnectReturned => cCall.nonblock = cCall.was_nonblocking
    /\ cPc \in {"greeting_sent", "request_sent"} => ~cCall.nonblock

\* a connect on a non-blocking socket succeeded through the proxy
C30_Witness ==
    /\ cPc = "connected"
    /\ cCall.was_nonblocking
    /\ cCall.nonblock
    /\ cCall.setfl = 2

\* C21: in a session that is relaying, once the client or the remote end has
\* closed its connection the handler closes both connections and returns,
\* whatever the other end does or does not do.
C21_SessionEndsWhenOneEndCloses ==
    /\ (sPc = "splice" /\ splice.clientClosed) ~> (sPc # "splice")
    /\ (sPc = "splice" /\ splice.remoteClosed) ~> (sPc # "splice")


-----------------------------------------------------------------------------
(* Supervisor properties (SpecMain)                                         *)

\* a startup step has failed: NewProxyServer, or StartWithReady returned an
\* error before it reached the accept loop
StartupFailed ==
    \/ mPc = "fatal" /\ pPc = "idle"
    \/ pPc = "failed"

C25_OneInterruptStopsProxyOnly ==
    (mainIn.proxyOnly /\ mPc = "wait_sig" /\ nSignals = 1 /\ sigChan = 1)
        ~> ((ctxDone /\ mPc = "exit") \/ nSignals > 1)

\* StartWithReady is over: it returned, or the process ended under it
AcceptorOver == pPc \in {"failed", "returned", "exited"}

\* C27: once the root context is cancelled the SOCKS5 listener is closed, the
\* blocked accept is released and the acceptor returns; no session is
\* accepted after that.
C27_ListenerClosedAfterCancel ==
    /\ (ctxDone /\ listener = "open") ~> (listener = "closed" /\ AcceptorOver)
    /\ [][listener = "closed" \/ AcceptorOver => nAccepted' = nAccepted]_vars

C27_Witness ==
    /\ Alive
    /\ ctxDone
    /\ closerPc = "done"
    /\ listener = "closed"
    /\ pPc = "returned"
    /\ nAccepted = MaxAccepts

-----------------------------------------------------------------------------
(* Control socket properties (SpecControl)                                  *)

\* a control line that is not "<LISTEN|CLOSE> <tcp4|tcp6> <decimal port>"
LineMalformed(raw) ==
    LET parts == Fields(TrimSpace(ScanLine(raw)))
    IN  \/ Len(parts) < 3
        \/ parts[1] \notin {<<"LISTEN">>, <<"CLOSE">>}
        \/ parts[2] \notin {<<"tcp4">>, <<"tcp6">>}
        \/ ~Atoi(parts[3]).ok

\* C22: a malformed line, or one whose command is neither LISTEN nor CLOSE,
\* leaves the exporter map unchanged, and the lines after it on the
\* connection remain to be processed in order.
C22_MalformedLinesSkipped ==
    [][(nScanned' = nScanned + 1 /\ LineMalformed(Head(ctlIn)))
          => /\ exporters' = exporters
             /\ listeners' = listeners
             /\ ctlIn' = Tail(ctlIn)
             /\ ctlConn' = ctlConn]_vars

\* C26: once the export manager is stopped, every exporter entry is removed,
\* every overlay listener is closed and cancelled, and the acceptor of the
\* control socket has returned and closed the socket, with no further
\* incoming connection.
C26_StopClosesEverything ==
    (emPc = "stopped" /\ nConns = 0)
        ~> (/\ exporters = {}
            /\ \A lid \in DOMAIN listeners :
                  ~listeners[lid].open /\ listeners[lid].cancelled
            /\ ctlPc = "returned"
            /\ ctlListener = "closed")

-----------------------------------------------------------------------------
(* Configuration properties (SpecConfig)                                    *)

\* the defaults of the options
OptionDefaults ==
    [ExitNode |-> "", Hostname |-> "tailproxy", AuthKey |-> "",
     ProxyPort |-> 1080, Verbose |-> FALSE, ExportMax |-> 32]

\* flag, else file, else default
Precedence(in, opt) ==
    IF opt \in DOMAIN in.flags /\ in.flags[opt] # Unset THEN in.flags[opt][1]
    ELSE IF in.file # Unset /\ in.file[1][opt] # Unset THEN in.file[1][opt][1]
    ELSE OptionDefaults[opt]

\* C24: every option's effective value is the flag's value if the flag was
\* given, else the file's value if the key is present, else the default.
C24_FlagsOverrideFileOverDefaults ==
    cfgPc = "done" =>
        \A opt \in DOMAIN FlagDefaults \cup (IF cfgIn.file # Unset
                                            THEN {"ExportMax"} ELSE {}) :
            cfgOut[opt] = Precedence(cfgIn, opt)

-----------------------------------------------------------------------------
(* the lazy open of the control channel and the lines sent per descriptor   *)

\* C32: once an attempt to open the control channel has failed, no later
\* send_control_message makes a new attempt to create or connect a control
\* socket
C32_FailedOpenIsFinal == ~ctlOpen.retried

\* C36: over the lifetime of a descriptor the shim hands over as many CLOSE
\* lines as LISTEN lines, at most one of each, also when listen() is called
\* more than once on it
C36_OneCloseForEachListen ==
    \A fd \in Fds :
        /\ sent[fd].listen <= 1
        /\ ~sock[fd].open => sent[fd].close = sent[fd].listen

\* C38: after Stop has run the exporter map stays empty: a LISTEN handled
\* afterwards creates no entry and opens no overlay listener
C38_NoExporterAfterStop ==
    emPc = "stopped" =>
        /\ exporters = {}
        /\ \A lid \in DOMAIN listeners : ~listeners[lid].open

-----------------------------------------------------------------------------
(* The listeners of the children behind the control lines.  The manager     *)
(* sees only "LISTEN <family> <port>" and "CLOSE <family> <port>"; here each *)
(* line has the listener that sent it, so that the reference count of an    *)
(* entry can be compared with the listeners that are counted in it.  A line *)
(* is lost when the shim could not open the control channel or the send     *)
(* buffer was full.                                                         *)

OwnerPorts == {80, 81}

\* a listener of a child starts listening on port; its LISTEN line, if it is
\* delivered, is handled by handleListen
OwnerListen(l, port, delivered, ok) ==
    /\ owner[l].st = "none"
    /\ \A k \in Owners : k < l => owner[k].st # "none"
    /\ IF delivered
       THEN /\ handleListen(port, ok)
            /\ owner' = [owner EXCEPT ![l] =
                   [st |-> "open", port |-> port,
                    counted |-> emLog' \in {"exporting", "refcount up"}]]
       ELSE /\ UNCHANGED <<exporters, listeners, emLog>>
            /\ owner' = [owner EXCEPT ![l] =
                   [st |-> "open", port |-> port, counted |-> FALSE]]
    /\ UNCHANGED <<config, emPc, nListen, nClose, lateListen, polVars, shimVars,
                   socksVars, mainVars, ctlVars, cfgVars, dom, ini, thr, loop, fwd>>

\* the listener is closed; its CLOSE line, if it is delivered, is handled by
\* handleClose
OwnerClose(l, delivered) ==
    /\ owner[l].st = "open"
    /\ IF delivered
       THEN handleClose(owner[l].port)
       ELSE UNCHANGED <<exporters, listeners, emLog>>
    /\ owner' = [owner EXCEPT ![l].st = "closed"]
    /\ UNCHANGED <<config, emPc, nListen, nClose, lateListen, polVars, shimVars,
                   socksVars, mainVars, ctlVars, cfgVars, dom, ini, thr, loop, fwd>>

InitOwners == Init

NextOwners ==
    \/ \E l \in Owners, port \in OwnerPorts, delivered \in BOOLEAN, ok \in BOOLEAN :
           OwnerListen(l, port, delivered, ok)
    \/ \E l \in Owners, delivered \in BOOLEAN : OwnerClose(l, delivered)

SpecOwners == InitOwners /\ [][NextOwners]_vars

\* the open listeners on port whose LISTEN was counted in an entry
CountedOpen(port) ==
    {l \in Owners : owner[l].st = "open" /\ owner[l].counted /\ owner[l].port = port}

\* C37: the entry of port P stays, with a reference count no lower than the
\* number of open listeners whose LISTEN was counted in it, until each of them
\* has sent its CLOSE; a CLOSE of a listener that was not counted changes none
\* of this
C37_EntryOutlivesCountedListeners ==
    \A port \in OwnerPorts :
        CountedOpen(port) # {} =>
            /\ HasEntry(port)
            /\ Entry(port).refcount >= Cardinality(CountedOpen(port))

-----------------------------------------------------------------------------
(* handleConnection on a CONNECT request that names its destination by      *)
(* domain: the client writes the whole request at once, the server reads it *)
(* with one Read into buf                                                   *)

\* buf := make([]byte, 256)
BufSize == 256

NameLens == 1..255

DomainPorts == {80, 443, 65535}

\* the name the client asks for: "abcdef" repeated up to len bytes
NameByte(i) == 97 + ((i - 1) % 6)

DomainName(len) == [i \in 1..len |-> NameByte(i)]

\* VER CMD RSV ATYP LEN name PORT, as a client writes it
DomainRequest(len, port) ==
    <<5, 1, 0, 3, len>> \o DomainName(len) \o <<port \div 256, port % 256>>

\* clientConn.Read(buf) with avail bytes waiting: it returns no more than buf holds
ReadCount(avail) == IF avail < BufSize THEN avail ELSE BufSize

\* handleConnection from "Read request" on, the whole request waiting
DomainRead(dialOk) ==
    /\ dom.pc = "sent"
    /\ LET req == DomainRequest(dom.len, dom.port)
           n   == ReadCount(Len(req))
       IN  dom' = [dom EXCEPT !.pc = "done",
                              !.res = ParseRequest(SubSeq(req, 1, n), dialOk)]
    /\ UNCHANGED <<config, emVars, shimVars, polVars, socksVars, mainVars, ctlVars,
                   cfgVars, owner, ini, thr, loop, fwd>>

InitDomain ==
    /\ \E len \in NameLens, port \in DomainPorts :
           dom = [pc |-> "sent", len |-> len, port |-> port,
                  res |-> [dial |-> FALSE, target |-> <<>>, reply |-> <<>>]]
    /\ OwnersIdle /\ InitIdle /\ ThreadsIdle /\ LoopIdle /\ ForwardIdle
    /\ MainIdle /\ CtlIdle /\ CfgIdle
    /\ ConfigIdle /\ EmIdle /\ ShimIdle /\ PolIdle /\ SocksIdle

NextDomain == \E dialOk \in BOOLEAN : DomainRead(dialOk)

SpecDomain == InitDomain /\ [][NextDomain]_vars

\* C39: for every name length from 1 to 255, a domain CONNECT request that is
\* waiting complete when the server reads makes the server dial the host made
\* of exactly the name bytes, with the port the two bytes after the name give,
\* high byte first
C39_DomainOfEveryLengthDialled ==
    dom.pc = "done" =>
        /\ dom.res.dial
        /\ dom.res.target =
               JoinHostPort([i \in 1..dom.len |-> ByteChar(NameByte(i))],
                            Itoa(dom.port))

-----------------------------------------------------------------------------
(* init_preload, called from the constructor and at the top of every shim,  *)
(* on any thread.  ini holds what it sets (the resolved primitives, the     *)
(* proxy address, the export flag, the control socket path, the FD table),  *)
(* the environment it reads, and where each thread is inside it.            *)

InitThreads == {1, 2}

MaxInitCalls == 3     \* calls of init_preload over a run

MaxSetenv == 1        \* changes of the environment by the application

\* the TAILPROXY_* variables: PORT, HOST, EXPORT_LISTENERS, CONTROL_SOCK
Environments ==
    [port : {Unset, Given(9050)}, host : {Unset, Given("10.0.0.1")},
     export : BOOLEAN, sock : {"", "sock"}]

\* the statics of the library before any call
InitStatics(env) ==
    [initialized |-> FALSE, real |-> FALSE, proxy_host |-> "127.0.0.1",
     proxy_port |-> 1080, export_enabled |-> FALSE, control_socket |-> "",
     fd_table |-> [fd \in Fds |-> ZeroEntry], env |-> env,
     pc |-> [t \in InitThreads |-> "out"], nInit |-> 0, nLate |-> 0,
     nSetenv |-> 0]

\* what init_preload is said to leave alone once it has completed
InitState(i) ==
    <<i.real, i.proxy_host, i.proxy_port, i.export_enabled, i.control_socket,
      i.fd_table>>

InitUnchangedRest ==
    UNCHANGED <<config, emVars, shimVars, polVars, socksVars, mainVars, ctlVars,
                cfgVars, owner, dom, thr, loop, fwd>>

\* init_preload without its first line
InitEnterUnguarded(t) ==
    /\ ini.pc[t] = "out"
    /\ ini.nInit < MaxInitCalls
    /\ ini' = [ini EXCEPT !.nInit = @ + 1,
                          !.nLate = IF ini.initialized THEN @ + 1 ELSE @,
                          !.pc[t] = "load"]
    /\ InitUnchangedRest

\* init_preload is called on thread t: if (initialized) return;
InitEnter(t) ==
    /\ ini.pc[t] = "out"
    /\ ini.nInit < MaxInitCalls
    /\ ini' = [ini EXCEPT !.nInit = @ + 1,
                          !.nLate = IF ini.initialized THEN @ + 1 ELSE @,
                          !.pc[t] = IF ini.initialized THEN "out" ELSE "load"]
    /\ InitUnchangedRest

\* the dlsym calls and memset(fd_table, 0, sizeof(fd_table))
InitLoad(t) ==
    /\ ini.pc[t] = "load"
    /\ ini' = [ini EXCEPT !.real = TRUE,
                          !.fd_table = [fd \in Fds |-> ZeroEntry],
                          !.pc[t] = "env"]
    /\ InitUnchangedRest

\* the getenv calls: the proxy address, the export flag and the socket path
InitEnv(t) ==
    /\ ini.pc[t] = "env"
    /\ ini' = [ini EXCEPT
                  !.proxy_port = IF ini.env.port # Unset THEN ini.env.port[1] ELSE @,
                  !.proxy_host = IF ini.env.host # Unset THEN ini.env.host[1] ELSE @,
                  !.export_enabled = IF ini.env.export THEN TRUE ELSE @,
                  !.control_socket = IF ini.env.export THEN ini.env.sock ELSE @,
                  !.pc[t] = "store"]
    /\ InitUnchangedRest

\* initialized = 1; the call returns
InitDone(t) ==
    /\ ini.pc[t] = "store"
    /\ ini' = [ini EXCEPT !.initialized = TRUE, !.pc[t] = "out"]
    /\ InitUnchangedRest

\* bind() on thread t, after its own call of init_preload returned: the entry
\* of fd is marked
InitBindRecord(t, fd) ==
    /\ ini.pc[t] = "out"
    /\ ini.initialized
    /\ ini.fd_table[fd] = ZeroEntry
    /\ ini' = [ini EXCEPT !.fd_table[fd] = [ZeroEntry EXCEPT !.is_tcp = TRUE,
                                                             !.family = "AF_INET"]]
    /\ InitUnchangedRest

\* the application changes its environment
Setenv(env) ==
    /\ ini.nSetenv < MaxSetenv
    /\ env # ini.env
    /\ ini' = [ini EXCEPT !.env = env, !.nSetenv = @ + 1]
    /\ InitUnchangedRest

InitInit ==
    /\ \E env \in Environments : ini = InitStatics(env)
    /\ OwnersIdle /\ DomainIdle /\ ThreadsIdle /\ LoopIdle /\ ForwardIdle
    /\ MainIdle /\ CtlIdle /\ CfgIdle
    /\ ConfigIdle /\ EmIdle /\ ShimIdle /\ PolIdle /\ SocksIdle

NextInit ==
    \/ \E t \in InitThreads : InitEnter(t)
    \/ \E t \in InitThreads : InitLoad(t)
    \/ \E t \in InitThreads : InitEnv(t)
    \/ \E t \in InitThreads : InitDone(t)
    \/ \E t \in InitThreads, fd \in Fds : InitBindRecord(t, fd)
    \/ \E env \in Environments : Setenv(env)

SpecInit == InitInit /\ [][NextInit]_vars

\* C35: a call of init_preload that begins once initialisation has completed
\* returns at once and changes nothing: the resolved primitives, the proxy
\* address, the export flag, the control socket path and the FD table are as
\* before
C35_LaterInitIsNoOp ==
    [][(ini'.nInit = ini.nInit + 1 /\ ini.initialized)
          => /\ InitState(ini') = InitState(ini)
             /\ ini'.initialized
             /\ ini'.pc = ini.pc]_vars

\* a call was made after completion, with an entry in the FD table and an
\* environment that would now give another configuration
C35_Witness ==
    /\ ini.nLate > 0
    /\ \E fd \in Fds : ini.fd_table[fd] # ZeroEntry
    /\ ini.env.port # Unset /\ ini.env.port[1] # ini.proxy_port
    /\ \A t \in InitThreads : ini.pc[t] = "out"

-----------------------------------------------------------------------------
(* The shims of bind, listen and close under threads, with export enabled   *)
(* and a control socket path set.  Each step is one stretch of a shim       *)
(* between two points where another thread can run: a pthread_mutex_lock,   *)
(* a pthread_mutex_unlock, a call of an original primitive, a call of       *)
(* send_control_message.  thr holds fd_table_lock (0: free, else the thread *)
(* that holds it), the FD table, control_fd, the kernel's view of the       *)
(* descriptors, and for each thread its place in the shim it is in.         *)

Threads == {1, 2}

MaxThreadCalls == 4   \* calls of bind, listen and close the application makes

ThreadFds == {3}

\* the descriptors of the table that the model touches
TableFds == ThreadFds \cup {CtrlFd}

\* a thread outside every shim
NoShimCall == [op |-> "none", fd |-> -1, family |-> "AF_UNSPEC", msg |-> <<>>,
               entry |-> ZeroEntry, again |-> FALSE, cont |-> "idle", log |-> <<>>]

ThreadsStart ==
    [mutex |-> 0,
     fd_table |-> [fd \in TableFds |-> ZeroEntry],
     control_fd |-> -1,
     kern |-> [fd \in ThreadFds |-> [open |-> TRUE, port |-> 0]],
     pc |-> [t \in Threads |-> "idle"],
     call |-> [t \in Threads |-> NoShimCall],
     last |-> [t \in Threads |-> NoShimCall],
     nCalls |-> 0]

ThreadsUnchangedRest ==
    UNCHANGED <<config, emVars, shimVars, polVars, socksVars, mainVars, ctlVars,
                cfgVars, owner, dom, ini, loop, fwd>>

\* what a call did, in order: a line handed to send_control_message, the
\* memset of the entry, the call of the original primitive and its result
SendEvent(msg) == [ev |-> "send", msg |-> msg, ret |-> 0]

ClearEvent == [ev |-> "clear", msg |-> <<>>, ret |-> 0]

RealEvent(ret) == [ev |-> "real", msg |-> <<>>, ret |-> ret]

\* the shim returns to the application; last keeps what a close did
Returned(t, call) ==
    [thr EXCEPT !.pc[t] = "idle", !.call[t] = NoShimCall,
                !.last[t] = IF call.op = "close" THEN [call EXCEPT !.msg = <<>>]
                            ELSE NoShimCall]

\* the application calls bind(fd, addr) on thread t; the socket is a stream
\* socket, so the shim goes on to pthread_mutex_lock
BindBegins(t, fd, family) ==
    /\ thr.pc[t] = "idle"
    /\ thr.nCalls < MaxThreadCalls
    /\ thr' = [thr EXCEPT !.pc[t] = "bind_lock", !.nCalls = @ + 1,
                          !.call[t] = [NoShimCall EXCEPT !.op = "bind", !.fd = fd,
                                                         !.family = family]]
    /\ ThreadsUnchangedRest

\* the application calls listen(fd, backlog) on thread t
ListenBegins(t, fd) ==
    /\ thr.pc[t] = "idle"
    /\ thr.nCalls < MaxThreadCalls
    /\ thr' = [thr EXCEPT !.pc[t] = "listen_real", !.nCalls = @ + 1,
                          !.call[t] = [NoShimCall EXCEPT !.op = "listen", !.fd = fd]]
    /\ ThreadsUnchangedRest

\* the application calls close(fd) on thread t
CloseBegins(t, fd) ==
    /\ thr.pc[t] = "idle"
    /\ thr.nCalls < MaxThreadCalls
    /\ thr' = [thr EXCEPT !.pc[t] = "close_lock", !.nCalls = @ + 1,
                          !.call[t] = [NoShimCall EXCEPT
                                          !.op = "close", !.fd = fd,
                                          !.again = ~thr.kern[fd].open]]
    /\ ThreadsUnchangedRest

\* where a thread stands once pthread_mutex_lock has returned
AfterLock(pc) ==
    CASE pc = "bind_lock"     -> "bind_cs"
      [] pc = "listen_lock"   -> "listen_cs"
      [] pc = "listen_relock" -> "listen_unlock"
      [] pc = "close_lock"    -> "close_cs"
      [] pc = "close_relock"  -> "close_clear"
      [] pc = "nested_lock"   -> "nested_cs"
      [] OTHER                -> pc

LockPcs == {"bind_lock", "listen_lock", "listen_relock", "close_lock",
            "close_relock", "nested_lock"}

\* pthread_mutex_lock(&fd_table_lock): returns once the mutex is free; the
\* mutex is not recursive, so the holder itself waits for ever
MutexLock(t) ==
    /\ thr.pc[t] \in LockPcs
    /\ thr.mutex = 0
    /\ thr' = [thr EXCEPT !.mutex = t, !.pc[t] = AfterLock(thr.pc[t])]
    /\ ThreadsUnchangedRest

\* bind: fd_table[sockfd].is_tcp = 1, .family = addr->sa_family, unlock
BindRecords(t) ==
    /\ thr.pc[t] = "bind_cs"
    /\ thr' = [thr EXCEPT
                  !.fd_table[thr.call[t].fd] =
                      [@ EXCEPT !.is_tcp = TRUE, !.family = thr.call[t].family],
                  !.mutex = 0,
                  !.pc[t] = "bind_real"]
    /\ ThreadsUnchangedRest

\* bind: return real_bind(sockfd, addr, addrlen); the address asks for port 80
RealBind(t, ok) ==
    /\ thr.pc[t] = "bind_real"
    /\ LET fd == thr.call[t].fd IN
       /\ ok => thr.kern[fd].open /\ thr.kern[fd].port = 0
       /\ thr' = [Returned(t, thr.call[t]) EXCEPT
                     !.kern[fd].port = IF ok THEN 80 ELSE @]
    /\ ThreadsUnchangedRest

\* listen: ret = real_listen(sockfd, backlog); if (ret != 0) return ret
RealListen(t, ok) ==
    /\ thr.pc[t] = "listen_real"
    /\ LET fd == thr.call[t].fd IN
       /\ ok => thr.kern[fd].open
       /\ thr' = IF ok
                 THEN [thr EXCEPT !.pc[t] = "listen_lock",
                                  !.kern[fd].port = IF @ = 0 THEN 82 ELSE @]
                 ELSE Returned(t, thr.call[t])
    /\ ThreadsUnchangedRest

\* listen under the mutex that keeps it while it calls send_control_message
ListenRecordsHoldingLock(t) ==
    /\ thr.pc[t] = "listen_cs"
    /\ LET fd    == thr.call[t].fd
           e     == thr.fd_table[fd]
           gotNm == thr.kern[fd].open
           port  == thr.kern[fd].port
           fam   == IF e.family = "AF_INET6" THEN "tcp6" ELSE "tcp4"
       IN  IF e.is_tcp /\ gotNm /\ port > 0
           THEN thr' = [thr EXCEPT
                           !.fd_table[fd] = [e EXCEPT !.is_listener = TRUE,
                                                      !.port = port],
                           !.call[t].msg = CtlLine("LISTEN", fam, port),
                           !.call[t].cont = "listen_unlock",
                           !.pc[t] = "send"]
           ELSE thr' = [thr EXCEPT
                           !.fd_table[fd] = [e EXCEPT
                                                !.is_listener = IF e.is_tcp THEN TRUE
                                                                ELSE @,
                                                !.port = IF e.is_tcp /\ gotNm
                                                         THEN port ELSE @],
                           !.pc[t] = "listen_unlock"]
    /\ ThreadsUnchangedRest

\* listen under the mutex: is_listener, getsockname, the port; with a port the
\* LISTEN line is formatted and the mutex released before the line is sent
ListenRecords(t) ==
    /\ thr.pc[t] = "listen_cs"
    /\ LET fd    == thr.call[t].fd
           e     == thr.fd_table[fd]
           gotNm == thr.kern[fd].open
           port  == thr.kern[fd].port
           fam   == IF e.family = "AF_INET6" THEN "tcp6" ELSE "tcp4"
       IN  IF e.is_tcp /\ gotNm /\ port > 0
           THEN thr' = [thr EXCEPT
                           !.fd_table[fd] = [e EXCEPT !.is_listener = TRUE,
                                                      !.port = port],
                           !.call[t].msg = CtlLine("LISTEN", fam, port),
                           !.call[t].cont = "listen_relock",
                           !.mutex = 0,
                           !.pc[t] = "send"]
           ELSE thr' = [thr EXCEPT
                           !.fd_table[fd] = [e EXCEPT
                                                !.is_listener = IF e.is_tcp THEN TRUE
                                                                ELSE @,
                                                !.port = IF e.is_tcp /\ gotNm
                                                         THEN port ELSE @],
                           !.pc[t] = "listen_unlock"]
    /\ ThreadsUnchangedRest

\* where a thread stands once pthread_mutex_unlock has returned
AfterUnlock(pc) ==
    CASE pc = "listen_unlock" -> "idle"
      [] pc = "close_unlock"  -> "close_real"
      [] pc = "nested_unlock" -> "nested_real"
      [] OTHER                -> pc

UnlockPcs == {"listen_unlock", "close_unlock", "nested_unlock"}

\* the last pthread_mutex_unlock of listen and close; listen then returns
MutexUnlock(t) ==
    /\ thr.pc[t] \in UnlockPcs
    /\ thr' = IF thr.pc[t] = "listen_unlock"
              THEN [Returned(t, thr.call[t]) EXCEPT !.mutex = 0]
              ELSE [thr EXCEPT !.mutex = 0, !.pc[t] = AfterUnlock(thr.pc[t])]
    /\ ThreadsUnchangedRest

\* close under the mutex that clears the entry before it looks at it
CloseChecksAfterClear(t) ==
    /\ thr.pc[t] = "close_cs"
    /\ LET fd == thr.call[t].fd
           e  == thr.fd_table[fd]
       IN  thr' = [thr EXCEPT !.call[t].entry = e,
                              !.fd_table[fd] = ZeroEntry,
                              !.call[t].log = Append(@, ClearEvent),
                              !.pc[t] = "close_unlock"]
    /\ ThreadsUnchangedRest

\* close under the mutex: for a listener with a port, family and port are
\* read and the mutex released before the CLOSE line is sent
CloseChecks(t) ==
    /\ thr.pc[t] = "close_cs"
    /\ LET fd == thr.call[t].fd
           e  == thr.fd_table[fd]
       IN  IF e.is_listener /\ e.port > 0
           THEN thr' = [thr EXCEPT
                           !.call[t].entry = e,
                           !.call[t].msg =
                               CtlLine("CLOSE",
                                       IF e.family = "AF_INET" THEN "tcp4" ELSE "tcp6",
                                       e.port),
                           !.call[t].cont = "close_relock",
                           !.mutex = 0,
                           !.pc[t] = "send"]
           ELSE thr' = [thr EXCEPT !.call[t].entry = e, !.pc[t] = "close_clear"]
    /\ ThreadsUnchangedRest

\* close: memset(&fd_table[fd], 0, sizeof(fd_info_t))
CloseClears(t) ==
    /\ thr.pc[t] = "close_clear"
    /\ LET fd == thr.call[t].fd IN
       thr' = [thr EXCEPT
                  !.fd_table[fd] = ZeroEntry,
                  !.call[t].log = Append(@, ClearEvent),
                  !.pc[t] = "close_unlock"]
    /\ ThreadsUnchangedRest

\* close: return real_close(fd)
RealClose(t) ==
    /\ thr.pc[t] = "close_real"
    /\ LET fd == thr.call[t].fd IN
       thr' = [Returned(t, [thr.call[t] EXCEPT
                               !.log = Append(@, RealEvent(IF thr.kern[fd].open
                                                           THEN 0 ELSE -1))])
                  EXCEPT !.kern[fd] = [open |-> FALSE, port |-> 0]]
    /\ ThreadsUnchangedRest

\* send_control_message(msg): with control_fd open the line is sent without
\* blocking; else socket() is called, and on its failure the line is dropped
SendControlMessage(t, sockOk) ==
    /\ thr.pc[t] = "send"
    /\ thr' = [thr EXCEPT
                  !.call[t].log = Append(@, SendEvent(thr.call[t].msg)),
                  !.control_fd = IF @ < 0 /\ sockOk THEN CtrlFd ELSE @,
                  !.pc[t] = IF thr.control_fd >= 0 THEN thr.call[t].cont
                            ELSE IF sockOk THEN "send_connect"
                            ELSE thr.call[t].cont]
    /\ ThreadsUnchangedRest

\* send_control_message: connect(control_fd, ...) through the connect shim,
\* which takes no mutex; connected, the line is sent, else close(control_fd)
\* is called, which is the close shim
ControlConnect(t, ok) ==
    /\ thr.pc[t] = "send_connect"
    /\ thr' = [thr EXCEPT !.pc[t] = IF ok THEN thr.call[t].cont ELSE "nested_lock"]
    /\ ThreadsUnchangedRest

\* the close shim on control_fd, under the mutex: the entry is no listener; it
\* is cleared
NestedCloseClears(t) ==
    /\ thr.pc[t] = "nested_cs"
    /\ thr' = [thr EXCEPT !.fd_table[CtrlFd] = ZeroEntry,
                          !.pc[t] = "nested_unlock"]
    /\ ThreadsUnchangedRest

\* the close shim on control_fd returns real_close; control_fd = -1; return
NestedRealClose(t) ==
    /\ thr.pc[t] = "nested_real"
    /\ thr' = [thr EXCEPT !.control_fd = -1, !.pc[t] = thr.call[t].cont]
    /\ ThreadsUnchangedRest

\* the steps of thread t inside a shim
ShimStep(t) ==
    \/ MutexLock(t)
    \/ BindRecords(t)
    \/ \E ok \in BOOLEAN : RealBind(t, ok)
    \/ \E ok \in BOOLEAN : RealListen(t, ok)
    \/ ListenRecords(t)
    \/ MutexUnlock(t)
    \/ CloseChecks(t)
    \/ CloseClears(t)
    \/ RealClose(t)
    \/ \E sockOk \in BOOLEAN : SendControlMessage(t, sockOk)
    \/ \E ok \in BOOLEAN : ControlConnect(t, ok)
    \/ NestedCloseClears(t)
    \/ NestedRealClose(t)

InitThreadsSpec ==
    /\ thr = ThreadsStart
    /\ OwnersIdle /\ DomainIdle /\ InitIdle /\ LoopIdle /\ ForwardIdle
    /\ MainIdle /\ CtlIdle /\ CfgIdle
    /\ ConfigIdle /\ EmIdle /\ ShimIdle /\ PolIdle /\ SocksIdle

NextThreads ==
    \/ \E t \in Threads, fd \in ThreadFds, family \in {"AF_INET", "AF_INET6"} :
           BindBegins(t, fd, family)
    \/ \E t \in Threads, fd \in ThreadFds : ListenBegins(t, fd)
    \/ \E t \in Threads, fd \in ThreadFds : CloseBegins(t, fd)
    \/ \E t \in Threads : ShimStep(t)

SpecThreads == InitThreadsSpec /\ [][NextThreads]_vars

\* every thread that is inside a shim is scheduled again
SpecThreadsFair == SpecThreads /\ \A t \in Threads : WF_vars(ShimStep(t))

\* the places of a shim where the thread holds fd_table_lock
HoldingPcs == {"bind_cs", "listen_cs", "listen_unlock", "close_cs",
               "close_clear", "close_unlock", "nested_cs", "nested_unlock"}

\* C40: a thread holds the FD-table mutex only between a lock and the next
\* unlock of the same shim, never while it is in send_control_message, in a
\* shim that send_control_message re-enters, or in an original primitive; and
\* under every interleaving each call of bind, listen and close returns with
\* the mutex released
C40_MutexNeverHeldAcrossCalls ==
    /\ [](\A t \in Threads : thr.mutex = t => thr.pc[t] \in HoldingPcs)
    /\ \A t \in Threads :
           (thr.pc[t] # "idle") ~> (thr.pc[t] = "idle" /\ thr.mutex # t)

\* a thread is inside the close shim that send_control_message re-entered,
\* holding the mutex, while the other thread waits for the mutex
C40_Witness ==
    \E t \in Threads, u \in Threads :
        /\ thr.pc[t] = "nested_cs"
        /\ thr.mutex = t
        /\ thr.pc[u] \in LockPcs

\* the entry close() found was a listener with a port
WasListener(c) == c.entry.is_listener /\ c.entry.port > 0

-----------------------------------------------------------------------------
(* One exporter entry from startExporter to the end of its accept loop,     *)
(* with stopExporter taken statement by statement: exp.cancel(), then       *)
(* exp.listener.Close().  loop holds the manager's context (emCtx: em.ctx   *)
(* is cancelled), Stop's progress, the entry (map: "none", "live",          *)
(* "removed"), its context (ctx: exp.ctx.Err() != nil), the overlay         *)
(* listener, the place of stopExporter and of acceptLoop, and the           *)
(* connections handed to forwarders.                                        *)

MaxHandoffs == 2      \* overlay connections accepted on the entry's listener

MaxAcceptErrors == 1  \* Accept errors on a listener that is still open

LoopStart ==
    [emCtx |-> FALSE, stopPc |-> "run", map |-> "none", ctx |-> FALSE,
     late |-> FALSE, lst |-> "none", stopEx |-> "idle", aPc |-> "none",
     handed |-> 0, handedCancelled |-> 0, errs |-> 0, errSeen |-> "none"]

LoopUnchangedRest ==
    UNCHANGED <<config, emVars, shimVars, polVars, socksVars, mainVars, ctlVars,
                cfgVars, owner, dom, ini, thr, fwd>>

\* a LISTEN for a port without entry: startExporter opens the overlay
\* listener, derives exp.ctx from em.ctx and starts acceptLoop
LoopStartExporter ==
    /\ loop.map = "none"
    /\ loop.stopPc # "stopping"
    /\ loop' = [loop EXCEPT !.map = "live", !.lst = "open", !.aPc = "accept",
                            !.ctx = loop.emCtx, !.late = loop.emCtx]
    /\ LoopUnchangedRest

\* the last CLOSE: handleClose calls stopExporter, whose first statement
\* after the lookup is exp.cancel()
LoopCloseCancels ==
    /\ loop.map = "live"
    /\ loop.stopEx = "idle"
    /\ loop.stopPc \in {"run", "stopped"}
    /\ loop' = [loop EXCEPT !.ctx = TRUE, !.stopEx = "cancelled"]
    /\ LoopUnchangedRest

\* stopExporter: exp.listener.Close(); delete(em.exporters, port)
LoopStopCloses ==
    /\ loop.stopEx = "cancelled"
    /\ loop' = [loop EXCEPT !.lst = "closed", !.map = "removed", !.stopEx = "idle",
                            !.stopPc = IF @ = "stopping" THEN "stopped" ELSE @]
    /\ LoopUnchangedRest

\* Stop: em.cancel(), which cancels the context of an entry that exists
LoopStopCancel ==
    /\ loop.stopPc = "run"
    /\ loop.stopEx = "idle"
    /\ loop' = [loop EXCEPT !.emCtx = TRUE, !.stopPc = "cancelled",
                            !.ctx = @ \/ loop.map = "live"]
    /\ LoopUnchangedRest

\* Stop, under em.mu: stopExporter for the entry of the map, if there is one
LoopStopExporters ==
    /\ loop.stopPc = "cancelled"
    /\ loop.stopEx = "idle"
    /\ loop' = IF loop.map = "live"
               THEN [loop EXCEPT !.stopPc = "stopping", !.ctx = TRUE,
                                 !.stopEx = "cancelled"]
               ELSE [loop EXCEPT !.stopPc = "stopped"]
    /\ LoopUnchangedRest

\* acceptLoop: Accept returns a connection; go em.forwardConnection(...)
LoopAccepts ==
    /\ loop.aPc = "accept"
    /\ loop.lst = "open"
    /\ loop.handed < MaxHandoffs
    /\ loop' = [loop EXCEPT !.handed = @ + 1,
                            !.handedCancelled = IF loop.ctx THEN @ + 1 ELSE @]
    /\ LoopUnchangedRest

\* acceptLoop: Accept on the closed listener returns an error at once:
\* return if exp.ctx.Err() != nil, else continue
LoopAcceptFails ==
    /\ loop.aPc = "accept"
    /\ loop.lst = "closed"
    /\ loop' = [loop EXCEPT
                   !.errSeen = IF loop.ctx THEN "cancelled" ELSE "live",
                   !.aPc = IF loop.ctx THEN "returned" ELSE "accept"]
    /\ LoopUnchangedRest

\* acceptLoop: Accept on the open listener returns an error of the overlay
\* network; the same test follows
LoopAcceptError ==
    /\ loop.aPc = "accept"
    /\ loop.lst = "open"
    /\ loop.errs < MaxAcceptErrors
    /\ loop' = [loop EXCEPT !.errs = @ + 1,
                            !.aPc = IF loop.ctx THEN "returned" ELSE "accept"]
    /\ LoopUnchangedRest

InitLoop ==
    /\ loop = LoopStart
    /\ OwnersIdle /\ DomainIdle /\ InitIdle /\ ThreadsIdle /\ ForwardIdle
    /\ MainIdle /\ CtlIdle /\ CfgIdle
    /\ ConfigIdle /\ EmIdle /\ ShimIdle /\ PolIdle /\ SocksIdle

\* the steps of the manager's own goroutines once they are due
LoopProgramStep ==
    \/ LoopStopCloses
    \/ LoopStopExporters
    \/ LoopAcceptFails

NextLoop ==
    \/ LoopStartExporter
    \/ LoopCloseCancels
    \/ LoopStopCancel
    \/ LoopAccepts
    \/ LoopAcceptError
    \/ LoopProgramStep

SpecLoop == InitLoop /\ [][NextLoop]_vars

\* stopExporter, Stop and the accept loop are scheduled; control lines, Stop's
\* call and overlay connections are the environment's
SpecLoopFair == SpecLoop /\ WF_vars(LoopProgramStep)

\* stopExporter or Stop is on its way to close the entry's listener
ClosePending == loop.stopEx = "cancelled" \/ loop.stopPc \in {"cancelled", "stopping"}

\* an entry that was in the map when it was cancelled: its accept loop returns
\* (under SpecLoopFair)
LiveEntryLoopEnds ==
    (loop.aPc = "accept" /\ loop.ctx /\ ~loop.late) ~> (loop.aPc = "returned")

\* the accept loop never sees the error of the closed listener with the entry
\* not yet cancelled
CloseErrorSeenCancelled == loop.errSeen # "live"

\* C33: once the context of an entry is cancelled its accept loop comes to an
\* end and hands over no further connection: a cancelled entry whose loop is
\* still accepting on an open listener has the close of that listener on its
\* way
C33_CancelledLoopIsBeingClosed ==
    (loop.ctx /\ loop.aPc = "accept" /\ loop.lst = "open") => ClosePending

-----------------------------------------------------------------------------
(* forwardConnection(ctx, tsConn, port) for one accepted overlay connection. *)
(* tsConn is a net.Conn handed out by the overlay listener; tsType is its    *)
(* dynamic type: "tcp" for *net.TCPConn, "overlay" for a connection type of  *)
(* the overlay's own network stack.  localConn comes from net.Dial("tcp")    *)
(* and is a *net.TCPConn.  The ctx parameter is not used.                    *)

MaxFwdBytes == 1      \* bytes each peer sends

FwdStart(tsType) ==
    [pc |-> "dial4", tsType |-> tsType, dials |-> <<>>,
     ts |-> [open |-> TRUE, wr |-> TRUE], lc |-> [open |-> FALSE, wr |-> FALSE],
     tsIn |-> 0, tsEof |-> FALSE, lcIn |-> 0, lcEof |-> FALSE,
     up |-> "idle", down |-> "idle", upBytes |-> 0, downBytes |-> 0,
     sentTs |-> 0, sentLc |-> 0]

FwdUnchangedRest ==
    UNCHANGED <<config, emVars, shimVars, polVars, socksVars, mainVars, ctlVars,
                cfgVars, owner, dom, ini, thr, loop>>

\* net.Dial("tcp", "127.0.0.1:<port>")
FwdDial4(ok) ==
    /\ fwd.pc = "dial4"
    /\ fwd' = IF ok
              THEN [fwd EXCEPT !.dials = Append(@, [to |-> "127.0.0.1", ok |-> TRUE]),
                               !.lc = [open |-> TRUE, wr |-> TRUE],
                               !.up = "copying", !.down = "copying",
                               !.pc = "copy"]
              ELSE [fwd EXCEPT !.dials = Append(@, [to |-> "127.0.0.1", ok |-> FALSE]),
                               !.pc = "dial6"]
    /\ FwdUnchangedRest

\* net.Dial("tcp", "[::1]:<port>"); on failure return, and the deferred
\* tsConn.Close() runs
FwdDial6(ok) ==
    /\ fwd.pc = "dial6"
    /\ fwd' = IF ok
              THEN [fwd EXCEPT !.dials = Append(@, [to |-> "::1", ok |-> TRUE]),
                               !.lc = [open |-> TRUE, wr |-> TRUE],
                               !.up = "copying", !.down = "copying",
                               !.pc = "copy"]
              ELSE [fwd EXCEPT !.dials = Append(@, [to |-> "::1", ok |-> FALSE]),
                               !.ts = [open |-> FALSE, wr |-> FALSE],
                               !.pc = "done"]
    /\ FwdUnchangedRest

\* the overlay peer sends a byte
OverlaySends ==
    /\ fwd.ts.open /\ ~fwd.tsEof
    /\ fwd.sentTs < MaxFwdBytes
    /\ fwd' = [fwd EXCEPT !.tsIn = @ + 1, !.sentTs = @ + 1]
    /\ FwdUnchangedRest

\* the overlay peer closes its sending side
OverlayCloses ==
    /\ fwd.ts.open /\ ~fwd.tsEof
    /\ fwd' = [fwd EXCEPT !.tsEof = TRUE]
    /\ FwdUnchangedRest

\* the local service sends a byte
LocalSends ==
    /\ fwd.lc.open /\ ~fwd.lcEof
    /\ fwd.sentLc < MaxFwdBytes
    /\ fwd' = [fwd EXCEPT !.lcIn = @ + 1, !.sentLc = @ + 1]
    /\ FwdUnchangedRest

\* the local service closes its sending side
LocalCloses ==
    /\ fwd.lc.open /\ ~fwd.lcEof
    /\ fwd' = [fwd EXCEPT !.lcEof = TRUE]
    /\ FwdUnchangedRest

\* io.Copy(localConn, tsConn) moves a byte
FwdCopyUp ==
    /\ fwd.pc = "copy" /\ fwd.up = "copying"
    /\ fwd.tsIn > 0
    /\ fwd' = [fwd EXCEPT !.tsIn = @ - 1, !.upBytes = @ + 1]
    /\ FwdUnchangedRest

\* io.Copy(localConn, tsConn) returns at the end of the overlay's data;
\* localConn.(*net.TCPConn).CloseWrite()
FwdUpEnds ==
    /\ fwd.pc = "copy" /\ fwd.up = "copying"
    /\ fwd.tsIn = 0 /\ fwd.tsEof
    /\ fwd' = [fwd EXCEPT !.up = "done", !.lc.wr = FALSE]
    /\ FwdUnchangedRest

\* io.Copy(tsConn, localConn) moves a byte
FwdCopyDown ==
    /\ fwd.pc = "copy" /\ fwd.down = "copying"
    /\ fwd.lcIn > 0
    /\ fwd' = [fwd EXCEPT !.lcIn = @ - 1, !.downBytes = @ + 1]
    /\ FwdUnchangedRest

\* io.Copy(tsConn, localConn) returns at the end of the local data;
\* tsConn.(*net.TCPConn).CloseWrite(): the type assertion has no ok result, so
\* it panics on any other connection type and the process ends
FwdDownEnds ==
    /\ fwd.pc = "copy" /\ fwd.down = "copying"
    /\ fwd.lcIn = 0 /\ fwd.lcEof
    /\ fwd' = IF fwd.tsType = "tcp"
              THEN [fwd EXCEPT !.down = "done", !.ts.wr = FALSE]
              ELSE [fwd EXCEPT !.pc = "panic",
                               !.ts = [open |-> FALSE, wr |-> FALSE],
                               !.lc = [open |-> FALSE, wr |-> FALSE]]
    /\ FwdUnchangedRest

\* wg.Wait() returns; the deferred localConn.Close() and tsConn.Close() run
FwdReturns ==
    /\ fwd.pc = "copy"
    /\ fwd.up = "done" /\ fwd.down = "done"
    /\ fwd' = [fwd EXCEPT !.pc = "done",
                          !.ts = [open |-> FALSE, wr |-> FALSE],
                          !.lc = [open |-> FALSE, wr |-> FALSE]]
    /\ FwdUnchangedRest

InitForward ==
    /\ \E tsType \in {"tcp", "overlay"} : fwd = FwdStart(tsType)
    /\ OwnersIdle /\ DomainIdle /\ InitIdle /\ ThreadsIdle /\ LoopIdle
    /\ MainIdle /\ CtlIdle /\ CfgIdle
    /\ ConfigIdle /\ EmIdle /\ ShimIdle /\ PolIdle /\ SocksIdle

NextForward ==
    \/ \E ok \in BOOLEAN : FwdDial4(ok)
    \/ \E ok \in BOOLEAN : FwdDial6(ok)
    \/ OverlaySends
    \/ OverlayCloses
    \/ LocalSends
    \/ LocalCloses
    \/ FwdCopyUp
    \/ FwdUpEnds
    \/ FwdCopyDown
    \/ FwdDownEnds
    \/ FwdReturns

SpecForward == InitForward /\ [][NextForward]_vars

\* the dials made so far are loopback IPv4 first, and loopback IPv6 only after
\* the IPv4 dial failed
DialOrder ==
    /\ Len(fwd.dials) <= 2
    /\ Len(fwd.dials) >= 1 => fwd.dials[1].to = "127.0.0.1"
    /\ Len(fwd.dials) = 2 => ~fwd.dials[1].ok /\ fwd.dials[2].to = "::1"

\* C34: the forwarder dials loopback IPv4 first and IPv6 only after IPv4
\* failed; when both fail the overlay connection is closed and nothing is
\* forwarded; else each direction's end half-closes the write side of its
\* destination and leaves the other direction flowing, and both sockets are
\* closed once both directions are done, not before
C34_ForwardBothWaysWithHalfClose ==
    /\ DialOrder
    /\ (Len(fwd.dials) = 2 /\ ~fwd.dials[2].ok)
           => /\ fwd.pc = "done" /\ ~fwd.ts.open /\ ~fwd.lc.open
              /\ fwd.upBytes = 0 /\ fwd.downBytes = 0
    /\ fwd.up = "done" => ~fwd.lc.wr
    /\ fwd.down = "done" => ~fwd.ts.wr
    /\ (fwd.up = "copying" \/ fwd.down = "copying")
           => fwd.ts.open /\ fwd.lc.open
    /\ (fwd.up = "done" /\ fwd.down = "copying") => fwd.ts.wr
    /\ (fwd.down = "done" /\ fwd.up = "copying") => fwd.lc.wr
    /\ (fwd.pc = "done" /\ fwd.dials[Len(fwd.dials)].ok)
           => fwd.up = "done" /\ fwd.down = "done" /\ ~fwd.ts.open /\ ~fwd.lc.open

====
